---- MODULE Spec2Model ----
(***************************************************************************)
(* A model of the grafana reporter's report-assembly pipeline:             *)
(*   - grafana/dashboard.go : the panel/row normalizer                     *)
(*   - grafana/api.go       : the rendering client and its retry loop      *)
(*   - report/texTemplate.go: Generate, fetchImages, runLaTeX, Clean       *)
(* The specifications share the variables:                                 *)
(*   SpecNorm   the normalizer applied to every bounded raw payload        *)
(*   SpecRender one panel image request against every response sequence   *)
(*   SpecDash   one dashboard metadata request against every reply         *)
(*   SpecIso    two reports built by New, writing and cleaning on one disk *)
(*   SpecGroup  fetchImages as a group of counted goroutines               *)
(*   SpecSanitize  SanitizeLaTexInput applied to every bounded string      *)
(*   Spec       one report: New, Generate (with its download tasks), Clean *)
(***************************************************************************)
EXTENDS Integers, Sequences, FiniteSets, TLC

VARIABLES
    payload,        \* raw panel/row entries composed by the dashboard service
    npc,            \* normalizer scenario: "compose" | "decoded" | "off"
    dash,           \* the Dashboard instance (grafana.Dashboard)
    parses,         \* json.Unmarshal calls made on panel entries so far
    gridRet,        \* last value returned by GetGridPanels
    rowsRet,        \* last value returned by GetRows
    rq,             \* one panel image request (GetPanelPng / makeRenderRequest)
    dq,             \* one dashboard metadata request (GetDashboard)
    rep,            \* the report struct built by New
    pc,             \* where Generate stands
    fs,             \* the workspace on disk
    idx,            \* fetchImages: next element of the selected panel list
    tasks,          \* fetchImages: the download goroutines, by position
    errorChannel,   \* fetchImages: the buffered error channel
    summary,        \* fetchImages: downloadErrors and the return value
    requested,      \* panel ids for which a render request was issued
    ret,            \* what Generate returned, and what it did on the way
    gen,            \* the stages Generate ran, the compiler runs, the Clean calls
    iso,            \* two reports side by side: their workspaces on one disk
    grp,            \* fetchImages seen as a task group: counts of goroutines
    san             \* one call of SanitizeLaTexInput: its input and its output

normVars == <<payload, npc, dash, parses, gridRet, rowsRet>>
pipeVars == <<rep, pc, fs, idx, tasks, errorChannel, summary, requested, ret, gen>>
vars == <<payload, npc, dash, parses, gridRet, rowsRet, rq, dq,
          rep, pc, fs, idx, tasks, errorChannel, summary, requested, ret,
          gen, iso, grp, san>>

(***************************************************************************)
(* Bounds of the model.                                                    *)
(***************************************************************************)
MaxEntries == 3     \* raw entries (top-level, nested and deeper) in a payload
MaxCleans == 2      \* calls of Clean by the caller of one report

(***************************************************************************)
(* grafana/dashboard.go: the raw payload.                                  *)
(* A raw entry is a json.RawMessage.  ok = FALSE stands for an entry that  *)
(* json.Unmarshal rejects (a field of the wrong JSON type); the other      *)
(* fields are what a successful decode into Panel yields.                  *)
(***************************************************************************)
\* Grid coordinates: two values on each axis give every order and every tie.
Coords == {0, 1}

RawEntry(ok, id, type, x, y, collapsed) ==
    [ok |-> ok, Id |-> id, Type |-> type, X |-> x, Y |-> y,
     Collapsed |-> collapsed, Panels |-> <<>>]

\* The entries the service may place at position id of the document.
EntryChoices(id) ==
    {RawEntry(FALSE, id, "", 0, 0, FALSE)}
    \cup {RawEntry(TRUE, id, "graph", x, y, FALSE) : x \in Coords, y \in Coords}
    \cup {RawEntry(TRUE, id, "row", x, y, c) :
              x \in Coords, y \in Coords, c \in BOOLEAN}

\* Entries nested below the second level are never decoded by the program.
DeepChoices(id) ==
    {RawEntry(FALSE, id, "", 0, 0, FALSE), RawEntry(TRUE, id, "graph", 0, 0, FALSE)}

RECURSIVE RawSize(_)
RawSize(raws) ==
    IF raws = <<>> THEN 0
    ELSE 1 + RawSize(Head(raws).Panels) + RawSize(Tail(raws))

(***************************************************************************)
(* grafana/dashboard.go: Panel, GrafanaRow, Dashboard.                     *)
(***************************************************************************)
\* json.Unmarshal(raw, &p): the decoded Panel (ContentPanels is json:"-").
Unmarshal(raw) ==
    [Id |-> raw.Id, Type |-> raw.Type, X |-> raw.X, Y |-> raw.Y,
     Collapsed |-> raw.Collapsed, Panels |-> raw.Panels]

\* Mutant of UnmarshalOk: the error of json.Unmarshal not looked at.
UnmarshalOkAlways(raw) == TRUE

UnmarshalOk(raw) == raw.ok

\* Mutant of GrafanaRow: the flag copied from Collapsed, not negated.
GrafanaRowShowsCollapsed(p, nestedPanels) ==
    [Id |-> p.Id, Showtitle |-> p.Collapsed, ContentPanels |-> nestedPanels,
     X |-> p.X, Y |-> p.Y]

GrafanaRow(p, nestedPanels) ==
    [Id |-> p.Id, Showtitle |-> ~p.Collapsed, ContentPanels |-> nestedPanels,
     X |-> p.X, Y |-> p.Y]

\* A Go nil slice and an empty slice are both <<>>: the code only ever
\* appends to a nil slice, so "!= nil" is "not empty" here.
NewDashboard(uid, title, panels, rows) ==
    [Uid |-> uid, Title |-> title, Panels |-> panels, Rows |-> rows,
     processedPanels |-> <<>>, processedRows |-> <<>>]

\* Mutant of GridLess: the keys compared in the wrong order, X before Y.
GridLessXFirst(a, b) ==
    IF a.X # b.X THEN a.X < b.X ELSE a.Y < b.Y

\* The less function of both sort.SliceStable calls: Y first, then X.
GridLess(a, b) ==
    IF a.Y # b.Y THEN a.Y < b.Y ELSE a.X < b.X

\* sort.SliceStable(s, GridLess): a stable sort, computed by insertion.
SortSliceStable(s) ==
    LET Insert(sorted, e) ==
            LET k == Cardinality({i \in 1..Len(sorted) : ~GridLess(e, sorted[i])})
            IN  SubSeq(sorted, 1, k) \o <<e>> \o SubSeq(sorted, k + 1, Len(sorted))
        F[i \in 0..Len(s)] == IF i = 0 THEN <<>> ELSE Insert(F[i - 1], s[i])
    IN  F[Len(s)]

\* The source of entries: Panels, or the deprecated Rows when Panels is empty.
PanelSource(d) ==
    IF Len(d.Panels) = 0 /\ Len(d.Rows) > 0 THEN d.Rows ELSE d.Panels

\* The inner loop over p.Panels of a row: the nested panels that decode.
NestedPanels(p) ==
    LET F[i \in 0..Len(p.Panels)] ==
            IF i = 0 THEN <<>>
            ELSE IF UnmarshalOk(p.Panels[i])
                 THEN Append(F[i - 1], Unmarshal(p.Panels[i]))
                 ELSE F[i - 1]
    IN  F[Len(p.Panels)]

\* Mutant of CollectPanels: the nested panels of a row kept in the row only,
\* not added to the flat list.
CollectPanelsRowOnly(src) ==
    LET F[i \in 0..Len(src)] ==
            IF i = 0 THEN [allPanels |-> <<>>, explicitRows |-> <<>>]
            ELSE LET acc == F[i - 1]
                     raw == src[i]
                     p == Unmarshal(raw)
                 IN  IF ~UnmarshalOk(raw) THEN acc
                     ELSE IF p.Type = "row"
                     THEN [allPanels |-> acc.allPanels,
                           explicitRows |->
                               Append(acc.explicitRows, GrafanaRow(p, NestedPanels(p)))]
                     ELSE [allPanels |-> Append(acc.allPanels, p),
                           explicitRows |-> acc.explicitRows]
    IN  F[Len(src)]

\* Mutant of CollectPanels: the nested panels of a row added to the flat
\* list once when they are read and once more when the row is built.
CollectPanelsNestedTwice(src) ==
    LET F[i \in 0..Len(src)] ==
            IF i = 0 THEN [allPanels |-> <<>>, explicitRows |-> <<>>]
            ELSE LET acc == F[i - 1]
                     raw == src[i]
                     p == Unmarshal(raw)
                 IN  IF ~UnmarshalOk(raw) THEN acc
                     ELSE IF p.Type = "row"
                     THEN [allPanels |->
                               acc.allPanels \o NestedPanels(p) \o NestedPanels(p),
                           explicitRows |->
                               Append(acc.explicitRows, GrafanaRow(p, NestedPanels(p)))]
                     ELSE [allPanels |-> Append(acc.allPanels, p),
                           explicitRows |-> acc.explicitRows]
    IN  F[Len(src)]

\* Mutant of CollectPanels: a row without decodable nested panels left out.
CollectPanelsDropEmptyRows(src) ==
    LET F[i \in 0..Len(src)] ==
            IF i = 0 THEN [allPanels |-> <<>>, explicitRows |-> <<>>]
            ELSE LET acc == F[i - 1]
                     raw == src[i]
                     p == Unmarshal(raw)
                 IN  IF ~UnmarshalOk(raw) THEN acc
                     ELSE IF p.Type = "row"
                     THEN [allPanels |-> acc.allPanels \o NestedPanels(p),
                           explicitRows |->
                               IF NestedPanels(p) = <<>> THEN acc.explicitRows
                               ELSE Append(acc.explicitRows,
                                           GrafanaRow(p, NestedPanels(p)))]
                     ELSE [allPanels |-> Append(acc.allPanels, p),
                           explicitRows |-> acc.explicitRows]
    IN  F[Len(src)]

\* The single pass over the panel source: allPanels and explicitRows
\* before sorting.  (currentY and currentRowPanels of the source are
\* written but never read, and are left out.)
CollectPanels(src) ==
    LET F[i \in 0..Len(src)] ==
            IF i = 0 THEN [allPanels |-> <<>>, explicitRows |-> <<>>]
            ELSE LET acc == F[i - 1]
                     raw == src[i]
                     p == Unmarshal(raw)
                 IN  IF ~UnmarshalOk(raw) THEN acc
                     ELSE IF p.Type = "row"
                     THEN [allPanels |-> acc.allPanels \o NestedPanels(p),
                           explicitRows |->
                               Append(acc.explicitRows, GrafanaRow(p, NestedPanels(p)))]
                     ELSE [allPanels |-> Append(acc.allPanels, p),
                           explicitRows |-> acc.explicitRows]
    IN  F[Len(src)]

\* json.Unmarshal calls one processing pass makes: one per top-level entry
\* and one per entry nested in a row that decoded.
ParseCalls(src) ==
    LET F[i \in 0..Len(src)] ==
            IF i = 0 THEN 0
            ELSE F[i - 1] + 1 +
                 (IF UnmarshalOk(src[i]) /\ src[i].Type = "row"
                  THEN Len(src[i].Panels) ELSE 0)
    IN  F[Len(src)]

AlreadyProcessed(d) ==
    Len(d.processedPanels) > 0 \/ Len(d.processedRows) > 0

processPanelsAndRows(d) ==
    IF AlreadyProcessed(d) THEN d
    ELSE LET c == CollectPanels(PanelSource(d))
         IN  [d EXCEPT !.processedPanels = SortSliceStable(c.allPanels),
                       !.processedRows = SortSliceStable(c.explicitRows)]

ProcessCost(d) ==
    IF AlreadyProcessed(d) THEN 0 ELSE ParseCalls(PanelSource(d))

\* Mutant of GridPanelsOf: the row filter forgotten.
GridPanelsOfUnfiltered(d) == d.processedPanels

\* GetGridPanels and GetRows, on an instance that has been processed.
GridPanelsOf(d) ==
    SelectSeq(d.processedPanels, LAMBDA p : p.Type # "row")

RowsOf(d) == d.processedRows

\* GrafanaRow.IsVisible: the flag set when the row was built.
IsVisible(r) == r.Showtitle

(***************************************************************************)
(* grafana/api.go: the rendering client.                                   *)
(***************************************************************************)
maxGetPanelRetries == 3

\* What client.Do hands back: an error (err # "none") or a response status.
\* A redirect never reaches the caller as a response: CheckRedirect refuses
\* it, and client.Do returns that refusal as an error.
Response(err, status) == [err |-> err, status |-> status]

Responses ==
    {Response("none", st) : st \in {200, 204, 400, 401, 403, 404, 500, 503}}
    \cup {Response(e, 0) : e \in {"timeout", "transport", "redirect"}}

NoErr == [kind |-> "none", id |-> 0, status |-> 0]
RenderErr(kind, id, status) == [kind |-> kind, id |-> id, status |-> status]

\* Mutant of RetryDelay: the same delay before every retry.
RetryDelayConstant(retries) == IF retries > 0 THEN 1 ELSE 0

\* The delay slept at the top of the loop, in units of
\* getPanelRetrySleepTime: none when retries is 0, else
\* getPanelRetrySleepTime * time.Duration(retries).
RetryDelay(retries) == IF retries > 0 THEN retries ELSE 0

\* Mutant of RetryIteration: the last attempt taken one iteration early.
RetryIterationOffByOne(id, retries, resp) ==
    LET sleep == RetryDelay(retries)
        Return(e) == [next |-> "return", err |-> e, sleep |-> sleep]
        Continue == [next |-> "continue", err |-> NoErr, sleep |-> sleep]
    IN  IF resp.err # "none"
        THEN IF retries >= maxGetPanelRetries - 1
             THEN Return(RenderErr("transport", id, 0))
             ELSE Continue
        ELSE IF resp.status = 200 THEN Return(NoErr)
        ELSE IF resp.status = 404 THEN Return(RenderErr("notfound", id, 404))
        ELSE IF resp.status = 401 \/ resp.status = 403
             THEN Return(RenderErr("auth", id, resp.status))
        ELSE IF resp.status >= 500
             THEN IF retries >= maxGetPanelRetries - 1
                  THEN Return(RenderErr("exhausted", id, resp.status))
                  ELSE Continue
        ELSE Return(RenderErr("client", id, resp.status))

\* Mutant of RetryIteration: every status from 400 up taken for a server
\* error and retried, but for 404.
RetryIterationRetry4xx(id, retries, resp) ==
    LET sleep == RetryDelay(retries)
        Return(e) == [next |-> "return", err |-> e, sleep |-> sleep]
        Continue == [next |-> "continue", err |-> NoErr, sleep |-> sleep]
    IN  IF resp.err # "none"
        THEN IF retries = maxGetPanelRetries
             THEN Return(RenderErr("transport", id, 0))
             ELSE Continue
        ELSE IF resp.status = 200 THEN Return(NoErr)
        ELSE IF resp.status = 404 THEN Return(RenderErr("notfound", id, 404))
        ELSE IF resp.status >= 400
             THEN IF retries = maxGetPanelRetries
                  THEN Return(RenderErr("exhausted", id, resp.status))
                  ELSE Continue
        ELSE Return(RenderErr("client", id, resp.status))

\* One iteration of the retry loop of makeRenderRequest, for loop counter
\* retries and the outcome resp of client.Do.  next is "return" (with err,
\* NoErr on success) or "continue"; sleep is the delay slept before the
\* request, in units of getPanelRetrySleepTime.
RetryIteration(id, retries, resp) ==
    LET sleep == RetryDelay(retries)
        Return(e) == [next |-> "return", err |-> e, sleep |-> sleep]
        Continue == [next |-> "continue", err |-> NoErr, sleep |-> sleep]
    IN  IF resp.err # "none"
        THEN IF retries = maxGetPanelRetries
             THEN Return(RenderErr("transport", id, 0))
             ELSE Continue
        ELSE IF resp.status = 200 THEN Return(NoErr)
        ELSE IF resp.status = 404 THEN Return(RenderErr("notfound", id, 404))
        ELSE IF resp.status = 401 \/ resp.status = 403
             THEN Return(RenderErr("auth", id, resp.status))
        ELSE IF resp.status >= 500
             THEN IF retries = maxGetPanelRetries
                  THEN Return(RenderErr("exhausted", id, resp.status))
                  ELSE Continue
        ELSE Return(RenderErr("client", id, resp.status))

\* GetPanelPng up to its call of makeRenderRequest: the empty-UID check.
UidCheck(id, dashUID) ==
    IF dashUID = <<>> THEN RenderErr("emptyuid", id, 0) ELSE NoErr

(***************************************************************************)
(* SpecRender: one GetPanelPng call, every response sequence.              *)
(***************************************************************************)
\* The panel handed to GetPanelPng: its id, its type and the width and
\* height of its gridPos.
RenderPanel(id, type, w, h) == [Id |-> id, Type |-> type, W |-> w, H |-> h]

\* The panelId, width and height GetPanelPng puts into the query of the
\* render URL of panel p, on a client built with useGridLayout.
RenderValues(p, useGridLayout) ==
    [panelId |-> p.Id, width |-> 1000, height |-> 500]

NoValues == [panelId |-> 0, width |-> 0, height |-> 0]

IdleRequest ==
    [state |-> "idle", panel |-> 0, dashUID |-> <<>>, retries |-> 0,
     hist |-> <<>>, sleeps |-> <<>>, err |-> NoErr,
     p |-> RenderPanel(0, "", 0, 0), grid |-> FALSE, vals |-> NoValues]

RenderPanelIds == {1, 2}
RenderUids == {<<>>, <<"u">>}
RenderTypes == {"singlestat", "text", "graph"}
RenderGridSizes == {<<6, 4>>, <<12, 8>>}
RenderPanels ==
    {RenderPanel(id, t, g[1], g[2]) :
        id \in RenderPanelIds, t \in RenderTypes, g \in RenderGridSizes}

\* GetPanelPng(p, dashUID, t) is entered, on a client built with
\* useGridLayout.
GetPanelPngCall(p, uid, useGridLayout) ==
    /\ rq.state = "idle"
    /\ rq' = IF UidCheck(p.Id, uid) # NoErr
             THEN [rq EXCEPT !.state = "err", !.panel = p.Id, !.dashUID = uid,
                             !.p = p, !.grid = useGridLayout,
                             !.err = UidCheck(p.Id, uid)]
             ELSE [rq EXCEPT !.state = "running", !.panel = p.Id, !.dashUID = uid,
                             !.p = p, !.grid = useGridLayout,
                             !.vals = RenderValues(p, useGridLayout)]
    /\ UNCHANGED <<normVars, dq, iso, grp, san, pipeVars>>

\* One pass through the retry loop: sleep, client.Do, classification.
RenderAttempt(resp) ==
    /\ rq.state = "running"
    /\ LET it == RetryIteration(rq.panel, rq.retries, resp)
       IN  rq' = [rq EXCEPT
                    !.hist = Append(@, resp),
                    !.sleeps = Append(@, it.sleep),
                    !.retries = IF it.next = "continue" THEN @ + 1 ELSE @,
                    !.state = IF it.next = "continue" THEN "running"
                              ELSE IF it.err = NoErr THEN "ok" ELSE "err",
                    !.err = it.err]
    /\ UNCHANGED <<normVars, dq, iso, grp, san, pipeVars>>

(***************************************************************************)
(* grafana/api.go: GetDashboard.                                           *)
(* Names and identifiers are sequences of characters, so that the UID      *)
(* heuristic can look at their length and their characters.                *)
(***************************************************************************)
UidChars ==
    {"a", "b", "c", "d", "e", "f", "g", "h", "i", "j", "k", "l", "m",
     "n", "o", "p", "q", "r", "s", "t", "u", "v", "w", "x", "y", "z",
     "A", "B", "C", "D", "E", "F", "G", "H", "I", "J", "K", "L", "M",
     "N", "O", "P", "Q", "R", "S", "T", "U", "V", "W", "X", "Y", "Z",
     "0", "1", "2", "3", "4", "5", "6", "7", "8", "9", "-"}

UidMinLen == 8

\* The heuristic of GetDashboard: longer than 8 characters, all of them
\* letters, digits or '-'.
IsUID(name) ==
    Len(name) > UidMinLen /\ \A i \in 1..Len(name) : name[i] \in UidChars

\* The identifier GetDashboard leaves in Dashboard.Uid.
ResolveUid(uid, slug, dashName) ==
    IF uid # <<>> THEN uid
    ELSE IF IsUID(dashName) THEN dashName
    ELSE IF slug # <<>> THEN slug
    ELSE dashName

FullDashboard(slug, uid, title, panels, rows) ==
    [slug |-> slug, uid |-> uid, title |-> title, panels |-> panels, rows |-> rows]

NoBody == FullDashboard(<<>>, <<>>, "", <<>>, <<>>)

\* A string is a sequence of runes.  "W" stands for a rune that takes two
\* bytes in UTF-8, every other rune takes one.
ByteWidth(r) == IF r = "W" THEN 2 ELSE 1

\* len(s) of Go: the length in bytes, each rune counted with its width.
ByteLen(s) ==
    Cardinality({<<i, b>> \in (1..Len(s)) \X (1..2) : b <= ByteWidth(s[i])})

Ellipsis == <<".", ".", ".">>

\* limitString(s, maxLen): s when it has at most maxLen bytes or at most
\* maxLen runes, else its first maxLen runes followed by "...".
limitString(s, maxLen) ==
    IF ByteLen(s) <= maxLen THEN s
    ELSE IF Len(s) <= maxLen THEN s
    ELSE SubSeq(s, 1, maxLen) \o Ellipsis

\* The length GetDashboard limits the body to in its error.
SnippetMax == 500

\* The reply to the metadata request: a transport error, or a status with
\* a body that decodes (parsed) or does not.  text is the body as it was
\* read, which only the error for a status other than 200 looks at.
DashResponse(err, status, parsed, body) ==
    [err |-> err, status |-> status, parsed |-> parsed, body |-> body,
     text |-> <<>>]

\* fmt.Errorf("error getting dashboard %v: Status %d, Body: %s", ...).
StatusErr(status, text) ==
    [kind |-> "status", id |-> 0, status |-> status,
     snippet |-> limitString(text, SnippetMax)]

\* GetDashboard(dashName): one request, never repeated.
GetDashboard(dashName, resp) ==
    IF resp.err # "none"
    THEN [err |-> RenderErr("transport", 0, 0), dash |-> NewDashboard(<<>>, "", <<>>, <<>>)]
    ELSE IF resp.status # 200
    THEN [err |-> StatusErr(resp.status, resp.text),
          dash |-> NewDashboard(<<>>, "", <<>>, <<>>)]
    ELSE IF ~resp.parsed
    THEN [err |-> RenderErr("unmarshal", 0, 0), dash |-> NewDashboard(<<>>, "", <<>>, <<>>)]
    ELSE [err |-> NoErr,
          dash |-> processPanelsAndRows(
                       NewDashboard(ResolveUid(resp.body.uid, resp.body.slug, dashName),
                                    resp.body.title, resp.body.panels, resp.body.rows))]

\* Mutant of DashRetries: the request repeated after a transport error.
DashRetriesOnTransport(resp) == resp.err # "none"

\* GetDashboard has no loop around httpClient.Do: whatever the reply, the
\* function returns after it.
DashRetries(resp) == FALSE

IdleDash == [state |-> "idle", name |-> <<>>, hist |-> <<>>, err |-> NoErr]

\* GetDashboard(dashName) is entered and the request is built.
DashCall(name) ==
    /\ dq.state = "idle"
    /\ dq' = [dq EXCEPT !.state = "sent", !.name = name]
    /\ UNCHANGED <<normVars, rq, iso, grp, san, pipeVars>>

\* httpClient.Do returns resp, and GetDashboard runs to its return.
DashReply(resp) ==
    /\ dq.state = "sent"
    /\ IF DashRetries(resp)
       THEN /\ dq' = [dq EXCEPT !.hist = Append(@, resp)]
            /\ UNCHANGED <<dash, parses>>
       ELSE LET r == GetDashboard(dq.name, resp)
            IN  /\ dq' = [dq EXCEPT !.hist = Append(@, resp),
                                    !.state = IF r.err = NoErr THEN "ok" ELSE "err",
                                    !.err = r.err]
                /\ dash' = r.dash
                /\ parses' = IF r.err = NoErr
                             THEN parses + ParseCalls(PanelSource(r.dash))
                             ELSE parses
    /\ UNCHANGED <<payload, npc, gridRet, rowsRet, rq, iso, grp, san, pipeVars>>

(***************************************************************************)
(* report/texTemplate.go: the report, its workspace and Generate.          *)
(***************************************************************************)
ErrChanCap == 100

\* Mutant of New: the report starts with a placeholder title.
NewWithPlaceholderTitle(dashName, path, useRowLayout) ==
    [dashName |-> dashName,
     useRowLayout |-> useRowLayout,
     dashTitle |-> "untitled",
     texTemplate |-> IF path = "readable" THEN "custom"
                     ELSE IF useRowLayout THEN "rowBased" ELSE "default"]

\* New: the template is the custom file when it can be read, else the
\* built-in template of the layout.  path is "" | "readable" | "unreadable".
New(dashName, path, useRowLayout) ==
    [dashName |-> dashName,
     useRowLayout |-> useRowLayout,
     dashTitle |-> "",
     texTemplate |-> IF path = "readable" THEN "custom"
                     ELSE IF useRowLayout THEN "rowBased" ELSE "default"]

NoReport == New(<<>>, "", FALSE)

\* Title(): the title kept in the report.
Title(r) == r.dashTitle

\* The workspace: the temporary directory, its images directory, the image
\* files by panel id, report.tex, pdflatex.log and report.pdf.
NoWorkspace ==
    [ws |-> FALSE, imgDir |-> FALSE, images |-> {}, tex |-> FALSE,
     log |-> FALSE, pdf |-> FALSE]

\* Mutant of Clean: the files removed, the directory left in place.
CleanKeepsDir(f) == [NoWorkspace EXCEPT !.ws = f.ws]

\* Clean: os.RemoveAll(tmpDir) takes the directory and all it holds away
\* (also when there is none).  The removal is taken to succeed: Clean only
\* logs its error and goes on the same way.
Clean(f) == NoWorkspace

\* Mutant of imgFilePath: one file name for every panel.
imgFilePathShared(panelID) == 0

\* imgFilePath(panelID): <tmpDir>/images/image<id>.png, named by the id.
imgFilePath(panelID) == panelID

\* Mutant of CleansOnError: the createTex branch returns without Clean.
CleansOnErrorNoTex(stage) == stage \in {"dashboard", "images"}

\* The error branches of Generate that call Clean before they return.
CleansOnError(stage) == stage \in {"dashboard", "images", "tex"}

NotReturned ==
    [kind |-> "none", stage |-> "", cleaned |-> FALSE, ws |-> FALSE,
     pdf |-> FALSE]

\* Generate returns an error from stage, with the workspace as f.
ReturnError(stage, f) ==
    LET g == IF CleansOnError(stage) THEN Clean(f) ELSE f
    IN  [fs |-> g,
         ret |-> [kind |-> "error", stage |-> stage,
                  cleaned |-> CleansOnError(stage), ws |-> g.ws,
                  pdf |-> g.pdf]]

\* GetGridPanels and GetRows as Generate calls them on its Dashboard.
GetGridPanels(d) == GridPanelsOf(processPanelsAndRows(d))
GetRows(d) == RowsOf(processPanelsAndRows(d))

\* dashUID of Generate: the fetched Uid, or the requested name.
DashUID == IF dash.Uid = <<>> THEN rep.dashName ELSE dash.Uid

\* The panels fetchImages walks, in the order of its loops.
RowPanels(rows) ==
    LET F[i \in 0..Len(rows)] ==
            IF i = 0 THEN <<>> ELSE F[i - 1] \o rows[i].ContentPanels
    IN  F[Len(rows)]

\* Mutant of SelectedPanels: the panels of the rows and the panels of the
\* grid both walked, one list after the other.
SelectedPanelsBoth(d, useRowLayout) ==
    RowPanels(GetRows(d)) \o GetGridPanels(d)

\* Mutant of SelectedPanels: the panels of the rows walked in every mode.
SelectedPanelsRowsAlways(d, useRowLayout) == RowPanels(GetRows(d))

SelectedPanels(d, useRowLayout) ==
    IF useRowLayout THEN RowPanels(GetRows(d)) ELSE GetGridPanels(d)

\* The early return of fetchImages: no rows (row layout) or no panels.
NothingToFetch(d, useRowLayout) ==
    IF useRowLayout THEN Len(GetRows(d)) = 0 ELSE Len(GetGridPanels(d)) = 0

\* Mutant of SkipsDownload: the text test forgotten.
SkipsDownloadNothing(p) == FALSE

\* The loop body's test: a text panel is skipped, any other is downloaded.
SkipsDownload(p) == p.Type = "text"

Task(panel, st, retries, err) ==
    [panel |-> panel, st |-> st, retries |-> retries, err |-> err]

\* Mutant of FetchResult: download errors returned to Generate.
FetchResultEscalates(downloadErrors) ==
    IF Len(downloadErrors) > 0 THEN "error" ELSE "nil"

\* The value fetchImages returns after the barrier.
FetchResult(downloadErrors) == "nil"

NoSummary == [closed |-> FALSE, downloadErrors |-> <<>>, result |-> "none"]

(***************************************************************************)
(* The dashboards the service answers with in Spec, and the names asked.   *)
(***************************************************************************)
PanelEntry(id, type, x, y) == RawEntry(TRUE, id, type, x, y, FALSE)

RowEntry(id, x, y, collapsed, nested) ==
    [RawEntry(TRUE, id, "row", x, y, collapsed) EXCEPT !.Panels = nested]

SampleDashboards ==
    { \* a collapsed row holding two graphs, and a stat outside the row
      FullDashboard(<<>>, <<"u", "1">>, "rows",
          <<PanelEntry(4, "singlestat", 0, 5),
            RowEntry(1, 0, 0, TRUE,
                <<PanelEntry(3, "graph", 1, 1), PanelEntry(2, "graph", 0, 1)>>)>>,
          <<>>),
      \* flat panels, one of them text, one entry malformed; no uid, a slug
      FullDashboard(<<"s">>, <<>>, "flat",
          <<PanelEntry(1, "graph", 0, 0), PanelEntry(2, "text", 1, 0),
            RawEntry(FALSE, 3, "", 0, 0, FALSE), PanelEntry(4, "table", 0, 1)>>,
          <<>>),
      \* nothing at all
      FullDashboard(<<>>, <<>>, "", <<>>, <<>>),
      \* an open row holding a text panel and a table
      FullDashboard(<<>>, <<>>, "mixed",
          <<RowEntry(1, 0, 0, FALSE,
                <<PanelEntry(2, "text", 0, 1), PanelEntry(3, "table", 1, 1)>>)>>,
          <<>>),
      \* a row that holds a row that holds a graph
      FullDashboard(<<>>, <<"u", "2">>, "deep",
          <<RowEntry(1, 0, 0, FALSE,
                <<RowEntry(2, 0, 1, FALSE, <<PanelEntry(3, "graph", 0, 2)>>)>>)>>,
          <<>>) }

DashResponses ==
    {DashResponse("transport", 0, FALSE, NoBody),
     DashResponse("none", 404, FALSE, NoBody),
     DashResponse("none", 200, FALSE, NoBody)}
    \cup {DashResponse("none", 200, TRUE, b) : b \in SampleDashboards}

DashNames ==
    {<<>>, <<"o", "p", "s">>, <<"n", "o", "d", "e", "-", "s", "t", "a", "t">>}

TemplatePaths == {"", "readable", "unreadable"}

\* The replies the rendering service gives the download goroutines of Spec
\* (SpecRender gives one request every reply of Responses).
TaskResponses ==
    {Response("none", 200), Response("none", 404), Response("none", 500),
     Response("timeout", 0)}

CreateTexOutcomes == {"ok", "create", "parse", "execute"}

(***************************************************************************)
(* Spec: one report.                                                       *)
(***************************************************************************)
\* What is kept of one run of Generate: the stages it started, in order;
\* the stages in which something fatal happened; the exit of each
\* pdflatex run; the error of runLaTeX; the calls of Clean by the caller;
\* the panels whose image the written report.tex includes.
NoLatexErr == [kind |-> "none", pass |-> 0, refers |-> "none"]

NoGen ==
    [stages |-> <<>>, faults |-> <<>>, runs |-> <<>>, err |-> NoLatexErr,
     cleans |-> 0, embeds |-> {}]

Stage(g, name, failed) ==
    [g EXCEPT !.stages = Append(@, name),
              !.faults = IF failed THEN Append(@, name) ELSE @]

\* Generate, first stage: GetDashboard, dashTitle, dashUID.
GenGetDashboard(resp) ==
    /\ pc = "new"
    /\ LET r == GetDashboard(rep.dashName, resp)
       IN  /\ IF r.err # NoErr
              THEN /\ fs' = ReturnError("dashboard", fs).fs
                   /\ ret' = ReturnError("dashboard", fs).ret
                   /\ pc' = "returned"
                   /\ UNCHANGED <<dash, rep>>
              ELSE /\ dash' = r.dash
                   /\ rep' = [rep EXCEPT !.dashTitle = r.dash.Title]
                   /\ pc' = "mkdir"
                   /\ UNCHANGED <<fs, ret>>
           /\ gen' = Stage(gen, "dashboard", r.err # NoErr)
    /\ UNCHANGED <<payload, npc, parses, gridRet, rowsRet, rq, dq, iso, grp,
                   san, idx, tasks, errorChannel, summary, requested>>

\* fetchImages up to its loop: os.MkdirAll of the images directory, the
\* choice of the panel list and the early return on an empty one.
FetchMkdir(ok, partial) ==
    /\ pc = "mkdir"
    /\ IF ok
       THEN /\ fs' = [fs EXCEPT !.ws = TRUE, !.imgDir = TRUE]
            /\ IF NothingToFetch(dash, rep.useRowLayout)
               THEN /\ pc' = "tex"
                    /\ summary' = [NoSummary EXCEPT !.result = "nil"]
               ELSE /\ pc' = "schedule"
                    /\ summary' = summary
            /\ ret' = ret
       ELSE /\ LET r == ReturnError("images", [fs EXCEPT !.ws = partial])
               IN  fs' = r.fs /\ ret' = r.ret
            /\ pc' = "returned"
            /\ summary' = [NoSummary EXCEPT !.result = "error"]
    /\ idx' = 1
    /\ gen' = Stage(gen, "images", ~ok)
    /\ UNCHANGED <<normVars, rq, dq, iso, grp, san, rep, tasks, errorChannel,
                   requested>>

\* One turn of the loop of fetchImages: skip a text panel, or wg.Add(1)
\* and start the goroutine for the panel.
FetchSchedule ==
    /\ pc = "schedule"
    /\ LET sel == SelectedPanels(dash, rep.useRowLayout)
           p == sel[idx]
       IN  /\ idx <= Len(sel)
           /\ tasks' = Append(tasks,
                              IF SkipsDownload(p) THEN Task(p.Id, "skipped", 0, NoErr)
                              ELSE Task(p.Id, "spawned", 0, NoErr))
           /\ idx' = idx + 1
           /\ pc' = IF idx = Len(sel) THEN "wait" ELSE "schedule"
    /\ UNCHANGED <<normVars, rq, dq, iso, grp, san, gen, rep, fs,
                   errorChannel, summary, requested, ret>>

\* A goroutine enters downloadPanelImage and GetPanelPng.
TaskGetPanelPng(i) ==
    /\ i \in 1..Len(tasks)
    /\ tasks[i].st = "spawned"
    /\ LET e == UidCheck(tasks[i].panel, DashUID)
       IN  tasks' = [tasks EXCEPT ![i].st = IF e = NoErr THEN "req" ELSE "send",
                                  ![i].err = e]
    /\ UNCHANGED <<normVars, rq, dq, iso, grp, san, gen, rep, pc, fs, idx,
                   errorChannel, summary, requested, ret>>

\* A goroutine makes one pass through the retry loop of makeRenderRequest.
TaskAttempt(i, resp) ==
    /\ i \in 1..Len(tasks)
    /\ tasks[i].st = "req"
    /\ LET it == RetryIteration(tasks[i].panel, tasks[i].retries, resp)
       IN  tasks' = [tasks EXCEPT
                        ![i].retries = IF it.next = "continue" THEN @ + 1 ELSE 0,
                        ![i].st = IF it.next = "continue" THEN "req"
                                  ELSE IF it.err = NoErr THEN "create" ELSE "send",
                        ![i].err = it.err]
    /\ requested' = requested \cup {tasks[i].panel}
    /\ UNCHANGED <<normVars, rq, dq, iso, grp, san, gen, rep, pc, fs, idx,
                   errorChannel, summary, ret>>

\* downloadPanelImage: os.Create(imgPath).
TaskCreate(i, ok) ==
    /\ i \in 1..Len(tasks)
    /\ tasks[i].st = "create"
    /\ IF ok
       THEN /\ fs' = [fs EXCEPT !.images = @ \cup {imgFilePath(tasks[i].panel)}]
            /\ tasks' = [tasks EXCEPT ![i].st = "copy"]
       ELSE /\ fs' = fs
            /\ tasks' = [tasks EXCEPT
                            ![i].st = "send",
                            ![i].err = RenderErr("create", tasks[i].panel, 0)]
    /\ UNCHANGED <<normVars, rq, dq, iso, grp, san, gen, rep, pc, idx,
                   errorChannel, summary, requested, ret>>

\* downloadPanelImage: io.Copy(file, body); a failed copy removes the file.
TaskCopy(i, ok) ==
    /\ i \in 1..Len(tasks)
    /\ tasks[i].st = "copy"
    /\ IF ok
       THEN /\ fs' = fs
            /\ tasks' = [tasks EXCEPT ![i].st = "done"]
       ELSE /\ fs' = [fs EXCEPT !.images = @ \ {imgFilePath(tasks[i].panel)}]
            /\ tasks' = [tasks EXCEPT
                            ![i].st = "send",
                            ![i].err = RenderErr("write", tasks[i].panel, 0)]
    /\ UNCHANGED <<normVars, rq, dq, iso, grp, san, gen, rep, pc, idx,
                   errorChannel, summary, requested, ret>>

\* fmt.Errorf("panel %d ('%s'): %w", panel.Id, panel.Title, err).
PanelError(panelID, err) == [panel |-> panelID, cause |-> err]

\* Mutant of ChannelSend: an unsynchronised write, the last one wins.
ChannelSendRacy(ch, e) == <<e>>

\* The goroutine's send on errorChannel (it blocks while the buffer is
\* full), followed by the deferred wg.Done.
ChannelSend(ch, e) == Append(ch, e)

TaskSend(i) ==
    /\ i \in 1..Len(tasks)
    /\ tasks[i].st = "send"
    /\ Len(errorChannel) < ErrChanCap
    /\ errorChannel' = ChannelSend(errorChannel, PanelError(tasks[i].panel, tasks[i].err))
    /\ tasks' = [tasks EXCEPT ![i].st = "done"]
    /\ UNCHANGED <<normVars, rq, dq, iso, grp, san, gen, rep, pc, fs, idx,
                   summary, requested, ret>>

\* Mutant of TaskFinished: wg.Done called when the download has returned,
\* before the send on the channel.
TaskFinishedBeforeSend(t) == t.st \in {"skipped", "done", "send"}

\* Mutant of TaskFinished: the barrier does not wait for the goroutines.
TaskFinishedAnyState(t) == TRUE

\* wg.Wait lets fetchImages go on when every goroutine has called wg.Done
\* (a skipped panel has none).
TaskFinished(t) == t.st \in {"skipped", "done"}

\* wg.Wait returns, the channel is closed and drained, fetchImages
\* returns, and Generate looks at what it returned.
FetchWait ==
    /\ pc = "wait"
    /\ \A i \in 1..Len(tasks) : TaskFinished(tasks[i])
    /\ LET res == FetchResult(errorChannel)
       IN  /\ summary' = [closed |-> TRUE, downloadErrors |-> errorChannel,
                          result |-> res]
           /\ IF res = "nil"
              THEN pc' = "tex" /\ fs' = fs /\ ret' = ret
              ELSE /\ LET r == ReturnError("images", fs)
                      IN  fs' = r.fs /\ ret' = r.ret
                   /\ pc' = "returned"
    /\ errorChannel' = <<>>
    /\ UNCHANGED <<normVars, rq, dq, iso, grp, san, gen, rep, idx, tasks,
                   requested>>

\* Mutant of TexFailed: only the error of os.Create looked at, the error
\* of the template's parse and execution dropped.
TexFailedOnlyCreate(outcome) == outcome = "create"

\* Generate's test of what createTex returned: any error is fatal.
TexFailed(outcome) == outcome # "ok"

\* The panel ids for which the template, executed on the data of createTex
\* (Rows: dash.GetRows(), Panels: dash.GetGridPanels()), writes an
\* \includegraphics of PanelImagePath: every element of .Panels in the
\* default template, every element of .ContentPanels of every row in the
\* row-based one.  What a custom template includes is not known.
TemplateEmbeds(texTemplate, d) ==
    LET Ids(panels) == {panels[i].Id : i \in 1..Len(panels)}
    IN  IF texTemplate = "default" THEN Ids(GetGridPanels(d))
        ELSE IF texTemplate = "rowBased" THEN Ids(RowPanels(GetRows(d)))
        ELSE {}

\* createTex: the data view, report.tex, template parse and execution.
\* Only a custom template can fail to parse.
GenCreateTex(outcome) ==
    /\ pc = "tex"
    /\ outcome = "parse" => rep.texTemplate = "custom"
    /\ IF ~TexFailed(outcome)
       THEN /\ fs' = [fs EXCEPT !.ws = TRUE, !.tex = (outcome # "create")]
            /\ pc' = "latex1"
            /\ ret' = ret
       ELSE /\ LET r == ReturnError("tex",
                            [fs EXCEPT !.ws = TRUE, !.tex = (outcome # "create")])
               IN  fs' = r.fs /\ ret' = r.ret
            /\ pc' = "returned"
    /\ gen' = [Stage(gen, "tex", outcome # "ok") EXCEPT
                  !.embeds = IF outcome = "ok"
                             THEN TemplateEmbeds(rep.texTemplate, dash) ELSE @]
    /\ UNCHANGED <<normVars, rq, dq, iso, grp, san, rep, idx, tasks,
                   errorChannel, summary, requested>>

\* The error runLaTeX returns, and the path its message names: logPath for
\* a failed pass, tmpDir for the missing PDF, pdfPath when it cannot be
\* opened, imgDirPath when the images directory is not there.
LatexErr(kind, pass) ==
    [kind |-> kind, pass |-> pass,
     refers |-> IF kind = "pass" THEN "logPath"
                ELSE IF kind = "nopdf" THEN "tmpDir"
                ELSE IF kind = "open" THEN "pdfPath"
                ELSE "imgDirPath"]

\* Mutant of NextPass: errCmd not looked at, the loop goes on after a
\* failed pass.
NextPassIgnoresExit(i, exitZero) ==
    IF i = 1 THEN "latex2" ELSE "check"

\* The loop 'for i := 1; i <= 2; i++' of runLaTeX after pass i: return on
\* an error of the command, else the next pass, and the check after the
\* second.
NextPass(i, exitZero) ==
    IF ~exitZero THEN "returned"
    ELSE IF i = 1 THEN "latex2" ELSE "check"

\* runLaTeX: pass i of pdflatex (before pass 1, the images directory is
\* looked for).  The output is written to the log; a non-zero exit ends
\* Generate.  produced: the compiler wrote report.pdf.
RunLaTeXPass(i, exitZero, produced) ==
    /\ pc = IF i = 1 THEN "latex1" ELSE "latex2"
    /\ IF i = 1 /\ ~fs.imgDir
       THEN /\ fs' = ReturnError("latex", fs).fs
            /\ ret' = ReturnError("latex", fs).ret
            /\ pc' = "returned"
            /\ gen' = [Stage(gen, "latex1", TRUE) EXCEPT
                          !.err = LatexErr("imgdir", 0)]
       ELSE /\ IF NextPass(i, exitZero) = "returned"
               THEN /\ fs' = ReturnError("latex", [fs EXCEPT !.log = TRUE]).fs
                    /\ ret' = ReturnError("latex", [fs EXCEPT !.log = TRUE]).ret
               ELSE /\ fs' = [fs EXCEPT !.log = TRUE,
                                        !.pdf = @ \/ (exitZero /\ produced)]
                    /\ ret' = ret
            /\ pc' = NextPass(i, exitZero)
            /\ gen' = [Stage(gen, IF i = 1 THEN "latex1" ELSE "latex2", ~exitZero)
                          EXCEPT !.runs = Append(@, [pass |-> i, exitZero |-> exitZero]),
                                 !.err = IF NextPass(i, exitZero) = "returned"
                                         THEN LatexErr("pass", i) ELSE @]
    /\ UNCHANGED <<normVars, rq, dq, iso, grp, san, rep, idx, tasks,
                   errorChannel, summary, requested>>

\* Mutant of ArtifactOutcome: os.Stat of the PDF left out.
ArtifactOutcomeNoStat(pdfExists, openOk) ==
    IF ~openOk THEN "open" ELSE "pdf"

\* runLaTeX after the passes: os.Stat of report.pdf, then os.Open.
ArtifactOutcome(pdfExists, openOk) ==
    IF ~pdfExists THEN "nopdf"
    ELSE IF ~openOk THEN "open"
    ELSE "pdf"

\* Mutant of ReturnPdf: the workspace removed before the handle is returned.
ReturnPdfCleaned(f) ==
    [fs |-> Clean(f),
     ret |-> [NotReturned EXCEPT !.kind = "pdf", !.cleaned = TRUE]]

\* Generate returns the open file: 'return pdfFile, nil', no Clean.
ReturnPdf(f) ==
    [fs |-> f,
     ret |-> [NotReturned EXCEPT !.kind = "pdf", !.ws = f.ws, !.pdf = f.pdf]]

\* runLaTeX after the passes, and the return of Generate.
RunLaTeXCheck(openOk) ==
    /\ pc = "check"
    /\ LET out == ArtifactOutcome(fs.pdf, openOk)
       IN  /\ IF out = "pdf"
              THEN /\ fs' = ReturnPdf(fs).fs
                   /\ ret' = ReturnPdf(fs).ret
              ELSE /\ fs' = ReturnError("latex", fs).fs
                   /\ ret' = ReturnError("latex", fs).ret
           /\ gen' = [Stage(gen, "check", ~(fs.pdf /\ openOk)) EXCEPT
                         !.err = IF out = "pdf" THEN @ ELSE LatexErr(out, 0)]
    /\ pc' = "returned"
    /\ UNCHANGED <<normVars, rq, dq, iso, grp, san, rep, idx, tasks,
                   errorChannel, summary, requested>>

\* The caller calls Clean, before Generate or after it has returned.
CallerClean ==
    /\ pc \in {"new", "returned"}
    /\ gen.cleans < MaxCleans
    /\ fs' = Clean(fs)
    /\ gen' = [gen EXCEPT !.cleans = @ + 1]
    /\ UNCHANGED <<normVars, rq, dq, iso, grp, san, rep, pc, idx, tasks,
                   errorChannel, summary, requested, ret>>

(***************************************************************************)
(* report/texTemplate.go: two reports built by New, side by side.          *)
(* A path is the sequence of its components.  iso keeps the identifiers    *)
(* uuid.New has issued, the two reports, the paths on the disk and, for    *)
(* each report, the paths it has written.                                  *)
(***************************************************************************)
IsoReports == {1, 2}
IsoDashNames == {"a", "b"}
IsoUuids == {"u1", "u2", "u3"}

\* Mutant of TmpDir: the workspace named after the dashboard.
TmpDirOfDashboard(dashName, uuid) == <<"tmp", "reporter", dashName>>

\* New: filepath.Join(os.TempDir(), "reporter", uuid.New()).
TmpDir(dashName, uuid) == <<"tmp", "reporter", uuid>>

\* const imgDir, reportTexFile.
imgDir == "images"
reportTexFile == "report.tex"

\* filepath.Join(dir, elem).
Join(dir, elem) == Append(dir, elem)

\* fmt.Sprintf("image%d.png", panelID), for the panel ids of IsoPanelIds.
IsoPanelIds == {1, 2}
ImageFileName(panelID) == IF panelID = 1 THEN "image1.png" ELSE "image2.png"

\* imgDirPath, imgFilePath and texPath of a report whose tmpDir is given.
ImgDirPathIn(tmpDir) == Join(tmpDir, imgDir)
ImgFilePathIn(tmpDir, panelID) == Join(ImgDirPathIn(tmpDir), ImageFileName(panelID))
TexPathIn(tmpDir) == Join(tmpDir, reportTexFile)

\* Mutant of PanelImagePath: the file name alone, without the directory.
PanelImagePathBare(panelID) == <<ImageFileName(panelID)>>

\* The template function PanelImagePath of createTex:
\* fmt.Sprintf("%s/image%d.png", imgDir, panelID), a relative path of two
\* components.
PanelImagePath(panelID) == <<imgDir, ImageFileName(panelID)>>

\* A relative path that pdflatex, run with cmd.Dir = tmpDir, opens.
ResolveIn(tmpDir, rel) == tmpDir \o rel

\* What else Generate writes below tmpDir: report.pdf (pdfPath).
IsoFiles == {<<"report.pdf">>}

NoIsoReport ==
    [built |-> FALSE, dashName |-> "", tmpDir |-> <<>>, cleaned |-> FALSE,
     images |-> {}, embeds |-> {}]

NoIso ==
    [issued |-> {}, reps |-> [r \in IsoReports |-> NoIsoReport], disk |-> {},
     wrote |-> {}]

\* path lies in the directory dir, at any depth.
Below(path, dir) == Len(path) > Len(dir) /\ SubSeq(path, 1, Len(dir)) = dir

\* os.RemoveAll(dir) on the disk.
RemoveAll(disk, dir) == {path \in disk : ~Below(path, dir)}

\* New(g, dashName, ...) builds report r.  uuid.New() returns an
\* identifier it has not returned before.
IsoNew(r, dashName, uuid) ==
    /\ ~iso.reps[r].built
    /\ uuid \notin iso.issued
    /\ iso' = [iso EXCEPT
                 !.issued = @ \cup {uuid},
                 !.reps[r] = [NoIsoReport EXCEPT
                                 !.built = TRUE, !.dashName = dashName,
                                 !.tmpDir = TmpDir(dashName, uuid)]]
    /\ UNCHANGED <<normVars, rq, dq, grp, san, pipeVars>>

\* Generate of report r writes one of its files.
IsoWrite(r, file) ==
    /\ iso.reps[r].built
    /\ LET path == iso.reps[r].tmpDir \o file
       IN  iso' = [iso EXCEPT !.disk = @ \cup {path},
                              !.wrote = @ \cup {<<r, path>>},
                              !.reps[r].cleaned = FALSE]
    /\ UNCHANGED <<normVars, rq, dq, grp, san, pipeVars>>

\* downloadPanelImage of report r writes the image of a panel:
\* os.Create(rep.imgFilePath(p.Id)).  images keeps the path by panel id.
IsoWriteImage(r, panelID) ==
    /\ iso.reps[r].built
    /\ LET path == ImgFilePathIn(iso.reps[r].tmpDir, panelID)
       IN  iso' = [iso EXCEPT !.disk = @ \cup {path},
                              !.wrote = @ \cup {<<r, path>>},
                              !.reps[r].cleaned = FALSE,
                              !.reps[r].images = @ \cup {<<panelID, path>>}]
    /\ UNCHANGED <<normVars, rq, dq, grp, san, pipeVars>>

\* createTex of report r writes report.tex; embeds keeps, by panel id,
\* the path PanelImagePath has put into it.
IsoCreateTex(r) ==
    /\ iso.reps[r].built
    /\ LET path == TexPathIn(iso.reps[r].tmpDir)
       IN  iso' = [iso EXCEPT
                     !.disk = @ \cup {path},
                     !.wrote = @ \cup {<<r, path>>},
                     !.reps[r].cleaned = FALSE,
                     !.reps[r].embeds =
                         {<<id, PanelImagePath(id)>> : id \in IsoPanelIds}]
    /\ UNCHANGED <<normVars, rq, dq, grp, san, pipeVars>>

\* Clean of report r: os.RemoveAll(rep.tmpDir).
IsoClean(r) ==
    /\ iso.reps[r].built
    /\ iso' = [iso EXCEPT !.disk = RemoveAll(@, iso.reps[r].tmpDir),
                          !.reps[r].cleaned = TRUE]
    /\ UNCHANGED <<normVars, rq, dq, grp, san, pipeVars>>

(***************************************************************************)
(* report/texTemplate.go: fetchImages as a task group.                     *)
(* The goroutines are counted, not told apart: running (inside             *)
(* downloadPanelImage), sending (the download returned an error, the send  *)
(* on errorChannel is next), done (wg.Done called); ch is the number of    *)
(* errors in the channel's buffer.                                         *)
(***************************************************************************)
NoGroup ==
    [st |-> "idle", n |-> 0, running |-> 0, sending |-> 0, done |-> 0,
     ch |-> 0, closed |-> FALSE]

\* Numbers of panels the loop starts a goroutine for.
GroupSizes == {1, ErrChanCap, ErrChanCap + 1}

\* The loop of fetchImages has started n goroutines and fetchImages is at
\* wg.Wait.
GroupStart(n) ==
    /\ grp.st = "idle"
    /\ grp' = [grp EXCEPT !.st = "waiting", !.n = n, !.running = n]
    /\ UNCHANGED <<normVars, rq, dq, iso, san, pipeVars>>

\* downloadPanelImage returns in one goroutine: with nil the goroutine
\* ends (the deferred wg.Done), with an error it goes on to the send.
GroupDownloadReturns(failed) ==
    /\ grp.running > 0
    /\ grp' = IF failed
              THEN [grp EXCEPT !.running = @ - 1, !.sending = @ + 1]
              ELSE [grp EXCEPT !.running = @ - 1, !.done = @ + 1]
    /\ UNCHANGED <<normVars, rq, dq, iso, san, pipeVars>>

\* errorChannel <- err in one goroutine, possible while the buffer has a
\* free slot; the goroutine ends after it (the deferred wg.Done).
GroupSend ==
    /\ grp.sending > 0
    /\ grp.ch < ErrChanCap
    /\ grp' = [grp EXCEPT !.sending = @ - 1, !.ch = @ + 1, !.done = @ + 1]
    /\ UNCHANGED <<normVars, rq, dq, iso, san, pipeVars>>

\* wg.Wait returns when every goroutine has called wg.Done; the channel
\* is closed and drained and fetchImages returns.
GroupWait ==
    /\ grp.st = "waiting"
    /\ grp.done = grp.n
    /\ grp' = [grp EXCEPT !.st = "returned", !.closed = TRUE, !.ch = 0]
    /\ UNCHANGED <<normVars, rq, dq, iso, san, pipeVars>>

(***************************************************************************)
(* grafana/dashboard.go: SanitizeLaTexInput.                               *)
(* A string is the sequence of its characters.                             *)
(***************************************************************************)
MaxInput == 3       \* characters in the string handed to SanitizeLaTexInput

\* strings.ReplaceAll(s, old, new) for a non-empty old: the occurrences of
\* old that do not overlap, from the left.
ReplaceAll(s, old, new) ==
    LET n == Len(s)
        m == Len(old)
        \* The positions of s where old occurs.
        Hits == {i \in 1..(n - m + 1) : SubSeq(s, i, i + m - 1) = old}
        \* Rest[i]: the result for s from position i on: the text up to
        \* the next occurrence, new, and the result behind the occurrence.
        Rest[i \in 1..(n + 1)] ==
            LET later == {h \in Hits : h >= i}
            IN  IF later = {} THEN SubSeq(s, i, n)
                ELSE LET h == CHOOSE x \in later : \A y \in later : x <= y
                     IN  SubSeq(s, i, h - 1) \o new \o Rest[h + m]
    IN  Rest[1]

\* "___TEMP_BACKSLASH___"
Placeholder ==
    <<"_", "_", "_", "T", "E", "M", "P", "_", "B", "A", "C", "K", "S", "L",
      "A", "S", "H", "_", "_", "_">>

\* "\\textbackslash{}" of the source: \textbackslash{}
TextBackslash ==
    <<"\\", "t", "e", "x", "t", "b", "a", "c", "k", "s", "l", "a", "s", "h",
      "{", "}">>

TextAsciiTilde ==
    <<"\\", "t", "e", "x", "t", "a", "s", "c", "i", "i", "t", "i", "l", "d",
      "e", "{", "}">>

TextAsciiCircum ==
    <<"\\", "t", "e", "x", "t", "a", "s", "c", "i", "i", "c", "i", "r", "c",
      "u", "m", "{", "}">>

\* The replacements of SanitizeLaTexInput between the two that deal with
\* the backslash, in the order of the source.
EscapeSpecials(s) ==
    LET s1 == ReplaceAll(s, <<"&">>, <<"\\", "&">>)
        s2 == ReplaceAll(s1, <<"%">>, <<"\\", "%">>)
        s3 == ReplaceAll(s2, <<"$">>, <<"\\", "$">>)
        s4 == ReplaceAll(s3, <<"#">>, <<"\\", "#">>)
        s5 == ReplaceAll(s4, <<"_">>, <<"\\", "_">>)
        s6 == ReplaceAll(s5, <<"{">>, <<"\\", "{">>)
        s7 == ReplaceAll(s6, <<"}">>, <<"\\", "}">>)
        s8 == ReplaceAll(s7, <<"~">>, TextAsciiTilde)
    IN  ReplaceAll(s8, <<"^">>, TextAsciiCircum)

\* SanitizeLaTexInput(input).
SanitizeLaTexInput(input) ==
    LET held == ReplaceAll(input, <<"\\">>, Placeholder)
    IN  ReplaceAll(EscapeSpecials(held), Placeholder, TextBackslash)

NoSanitize == [called |-> FALSE, input |-> <<>>, out |-> <<>>]

\* The characters of the strings handed over, and the strings.
InputChars == {"\\", "_", "&", "~", "a"}
Inputs == UNION {[1..n -> InputChars] : n \in 0..MaxInput}

\* One call of SanitizeLaTexInput, as the template function EscapeLaTeX.
SanitizeCall(input) ==
    /\ ~san.called
    /\ san' = [called |-> TRUE, input |-> input, out |-> SanitizeLaTexInput(input)]
    /\ UNCHANGED <<normVars, rq, dq, iso, grp, pipeVars>>


NotCalled == [called |-> FALSE, val |-> <<>>]

Init ==
    /\ payload = <<>>
    /\ npc = "off"
    /\ dash = NewDashboard(<<>>, "", <<>>, <<>>)
    /\ parses = 0
    /\ gridRet = NotCalled
    /\ rowsRet = NotCalled
    /\ rq = IdleRequest
    /\ dq = IdleDash
    /\ gen = NoGen
    /\ iso = NoIso
    /\ grp = NoGroup
    /\ san = NoSanitize
    /\ rep \in {New(n, t, r) : n \in DashNames, t \in TemplatePaths, r \in BOOLEAN}
    /\ pc = "new"
    /\ fs = NoWorkspace
    /\ idx = 1
    /\ tasks = <<>>
    /\ errorChannel = <<>>
    /\ summary = NoSummary
    /\ requested = {}
    /\ ret = NotReturned

Next ==
    \/ \E resp \in DashResponses : GenGetDashboard(resp)
    \/ \E ok \in BOOLEAN, partial \in BOOLEAN : FetchMkdir(ok, partial)
    \/ FetchSchedule
    \/ \E i \in 1..Len(tasks) : TaskGetPanelPng(i)
    \/ \E i \in 1..Len(tasks), resp \in TaskResponses : TaskAttempt(i, resp)
    \/ \E i \in 1..Len(tasks), ok \in BOOLEAN : TaskCreate(i, ok)
    \/ \E i \in 1..Len(tasks), ok \in BOOLEAN : TaskCopy(i, ok)
    \/ \E i \in 1..Len(tasks) : TaskSend(i)
    \/ FetchWait
    \/ \E outcome \in CreateTexOutcomes : GenCreateTex(outcome)
    \/ \E i \in {1, 2}, exitZero \in BOOLEAN, produced \in BOOLEAN :
           RunLaTeXPass(i, exitZero, produced)
    \/ \E openOk \in BOOLEAN : RunLaTeXCheck(openOk)
    \/ CallerClean

Spec == Init /\ [][Next]_vars

(***************************************************************************)
(* SpecNorm: the dashboard service composes a payload entry by entry (in   *)
(* document order, ids unique as in a dashboard), the client decodes it,   *)
(* and the normalizer and its accessors are called on the instance.        *)
(***************************************************************************)
MaxParses == 6      \* cap on the Unmarshal calls counted in parses

\* A top-level entry is added to the document.
ComposeTop(e) ==
    /\ npc = "compose"
    /\ RawSize(payload) < MaxEntries
    /\ e \in EntryChoices(RawSize(payload) + 1)
    /\ payload' = Append(payload, e)
    /\ UNCHANGED <<npc, dash, parses, gridRet, rowsRet, rq, dq, iso, grp,
                   san, pipeVars>>

\* An entry is added to the "panels" of the last top-level entry.
ComposeNested(e) ==
    /\ npc = "compose"
    /\ RawSize(payload) < MaxEntries
    /\ payload # <<>>
    /\ payload[Len(payload)].ok
    /\ e \in EntryChoices(RawSize(payload) + 1)
    /\ payload' = [payload EXCEPT ![Len(payload)].Panels = Append(@, e)]
    /\ UNCHANGED <<npc, dash, parses, gridRet, rowsRet, rq, dq, iso, grp,
                   san, pipeVars>>

\* An entry is added to the "panels" of the last nested entry.
ComposeDeep(e) ==
    /\ npc = "compose"
    /\ RawSize(payload) < MaxEntries
    /\ payload # <<>>
    /\ LET top == payload[Len(payload)]
       IN  /\ top.ok
           /\ top.Panels # <<>>
           /\ top.Panels[Len(top.Panels)].ok
           /\ e \in DeepChoices(RawSize(payload) + 1)
           /\ payload' = [payload EXCEPT
                            ![Len(payload)].Panels[Len(top.Panels)].Panels = Append(@, e)]
    /\ UNCHANGED <<npc, dash, parses, gridRet, rowsRet, rq, dq, iso, grp,
                   san, pipeVars>>

\* json.Unmarshal of the response into the Dashboard: the entries arrive
\* in "panels", or in the deprecated "rows".
Decode(field) ==
    /\ npc = "compose"
    /\ npc' = "decoded"
    /\ dash' = IF field = "panels"
               THEN NewDashboard(<<"u">>, "t", payload, <<>>)
               ELSE NewDashboard(<<"u">>, "t", <<>>, payload)
    /\ UNCHANGED <<payload, parses, gridRet, rowsRet, rq, dq, iso, grp, san,
                   pipeVars>>

\* processPanelsAndRows is called on the instance (as GetDashboard does).
CallProcess ==
    /\ npc = "decoded"
    /\ parses + ProcessCost(dash) <= MaxParses
    /\ dash' = processPanelsAndRows(dash)
    /\ parses' = parses + ProcessCost(dash)
    /\ UNCHANGED <<payload, npc, gridRet, rowsRet, rq, dq, iso, grp, san,
                   pipeVars>>

CallGetGridPanels ==
    /\ npc = "decoded"
    /\ parses + ProcessCost(dash) <= MaxParses
    /\ dash' = processPanelsAndRows(dash)
    /\ parses' = parses + ProcessCost(dash)
    /\ gridRet' = [called |-> TRUE, val |-> GridPanelsOf(dash')]
    /\ UNCHANGED <<payload, npc, rowsRet, rq, dq, iso, grp, san, pipeVars>>

CallGetRows ==
    /\ npc = "decoded"
    /\ parses + ProcessCost(dash) <= MaxParses
    /\ dash' = processPanelsAndRows(dash)
    /\ parses' = parses + ProcessCost(dash)
    /\ rowsRet' = [called |-> TRUE, val |-> RowsOf(dash')]
    /\ UNCHANGED <<payload, npc, gridRet, rq, dq, iso, grp, san, pipeVars>>

InitNorm ==
    /\ npc = "compose"
    /\ payload = <<>>
    /\ dash = NewDashboard(<<>>, "", <<>>, <<>>)
    /\ parses = 0
    /\ gridRet = NotCalled
    /\ rowsRet = NotCalled
    /\ rq = IdleRequest
    /\ dq = IdleDash
    /\ gen = NoGen
    /\ iso = NoIso
    /\ grp = NoGroup
    /\ san = NoSanitize
    /\ rep = NoReport
    /\ pc = "off"
    /\ fs = NoWorkspace
    /\ idx = 1
    /\ tasks = <<>>
    /\ errorChannel = <<>>
    /\ summary = NoSummary
    /\ requested = {}
    /\ ret = NotReturned

NextNorm ==
    \/ \E e \in EntryChoices(RawSize(payload) + 1) : ComposeTop(e)
    \/ \E e \in EntryChoices(RawSize(payload) + 1) : ComposeNested(e)
    \/ \E e \in DeepChoices(RawSize(payload) + 1) : ComposeDeep(e)
    \/ \E field \in {"panels", "rows"} : Decode(field)
    \/ CallProcess
    \/ CallGetGridPanels
    \/ CallGetRows

SpecNorm == InitNorm /\ [][NextNorm]_vars

InitRender ==
    /\ npc = "off"
    /\ payload = <<>>
    /\ dash = NewDashboard(<<>>, "", <<>>, <<>>)
    /\ parses = 0
    /\ gridRet = NotCalled
    /\ rowsRet = NotCalled
    /\ rq = IdleRequest
    /\ dq = IdleDash
    /\ gen = NoGen
    /\ iso = NoIso
    /\ grp = NoGroup
    /\ san = NoSanitize
    /\ rep = NoReport
    /\ pc = "off"
    /\ fs = NoWorkspace
    /\ idx = 1
    /\ tasks = <<>>
    /\ errorChannel = <<>>
    /\ summary = NoSummary
    /\ requested = {}
    /\ ret = NotReturned

NextRender ==
    \/ \E p \in RenderPanels, uid \in RenderUids, g \in BOOLEAN :
          GetPanelPngCall(p, uid, g)
    \/ \E resp \in Responses : RenderAttempt(resp)

SpecRender == InitRender /\ [][NextRender]_vars

(***************************************************************************)
(* SpecDash: one GetDashboard call, every name and every reply.            *)
(***************************************************************************)
\* The names asked for: those of Spec, and one longer than eight characters
\* that holds a character no UID holds.
DashCallNames ==
    DashNames \cup {<<"m", "y", " ", "d", "a", "s", "h", " ", "0", "1">>}

\* Bodies that decode: with and without uid, with and without meta slug.
DashBodies ==
    SampleDashboards
    \cup {FullDashboard(slug, uid, "t", <<PanelEntry(1, "graph", 0, 0)>>, <<>>) :
              slug \in {<<>>, <<"s">>}, uid \in {<<>>, <<"u", "1">>}}

\* Bodies of replies with another status than 200: short ones, and ones
\* around SnippetMax bytes and SnippetMax runes.
DashTextLens ==
    {0, 3, SnippetMax \div 2, SnippetMax \div 2 + 1,
     SnippetMax, SnippetMax + 1, SnippetMax + 2}

DashTexts == {[i \in 1..n |-> c] : n \in DashTextLens, c \in {"a", "W"}}

DashReplies ==
    {DashResponse(e, 0, FALSE, NoBody) : e \in {"transport", "timeout"}}
    \cup {[DashResponse("none", st, FALSE, NoBody) EXCEPT !.text = t] :
              st \in {204, 404, 500}, t \in DashTexts}
    \cup {DashResponse("none", 200, FALSE, NoBody)}
    \cup {DashResponse("none", 200, TRUE, b) : b \in DashBodies}

InitDash ==
    /\ npc = "off"
    /\ payload = <<>>
    /\ dash = NewDashboard(<<>>, "", <<>>, <<>>)
    /\ parses = 0
    /\ gridRet = NotCalled
    /\ rowsRet = NotCalled
    /\ rq = IdleRequest
    /\ dq = IdleDash
    /\ gen = NoGen
    /\ iso = NoIso
    /\ grp = NoGroup
    /\ san = NoSanitize
    /\ rep = NoReport
    /\ pc = "off"
    /\ fs = NoWorkspace
    /\ idx = 1
    /\ tasks = <<>>
    /\ errorChannel = <<>>
    /\ summary = NoSummary
    /\ requested = {}
    /\ ret = NotReturned

NextDash ==
    \/ \E name \in DashCallNames : DashCall(name)
    \/ \E resp \in DashReplies : DashReply(resp)

SpecDash == InitDash /\ [][NextDash]_vars

InitIso ==
    /\ npc = "off"
    /\ payload = <<>>
    /\ dash = NewDashboard(<<>>, "", <<>>, <<>>)
    /\ parses = 0
    /\ gridRet = NotCalled
    /\ rowsRet = NotCalled
    /\ rq = IdleRequest
    /\ dq = IdleDash
    /\ gen = NoGen
    /\ iso = NoIso
    /\ grp = NoGroup
    /\ san = NoSanitize
    /\ rep = NoReport
    /\ pc = "off"
    /\ fs = NoWorkspace
    /\ idx = 1
    /\ tasks = <<>>
    /\ errorChannel = <<>>
    /\ summary = NoSummary
    /\ requested = {}
    /\ ret = NotReturned

NextIso ==
    \/ \E r \in IsoReports, n \in IsoDashNames, u \in IsoUuids : IsoNew(r, n, u)
    \/ \E r \in IsoReports, f \in IsoFiles : IsoWrite(r, f)
    \/ \E r \in IsoReports, id \in IsoPanelIds : IsoWriteImage(r, id)
    \/ \E r \in IsoReports : IsoCreateTex(r)
    \/ \E r \in IsoReports : IsoClean(r)

SpecIso == InitIso /\ [][NextIso]_vars

InitGroup == InitIso

NextGroup ==
    \/ \E n \in GroupSizes : GroupStart(n)
    \/ \E failed \in BOOLEAN : GroupDownloadReturns(failed)
    \/ GroupSend
    \/ GroupWait

SpecGroup == InitGroup /\ [][NextGroup]_vars

InitSanitize == InitIso

NextSanitize == \E input \in Inputs : SanitizeCall(input)

SpecSanitize == InitSanitize /\ [][NextSanitize]_vars

(***************************************************************************)
(* Properties of Generate (Spec).                                          *)
(***************************************************************************)
Failed(t) == t.st = "done" /\ t.err # NoErr
Succeeded(t) == t.st = "done" /\ t.err = NoErr
FailedTasks == {i \in 1..Len(tasks) : Failed(tasks[i])}
SucceededTasks == {i \in 1..Len(tasks) : Succeeded(tasks[i])}
GenerateRunning == pc \in {"tex", "latex1", "latex2", "check"}

\* C1 (as stated): whenever Generate has returned an error, whichever
\* stage failed, the workspace directory was gone when it returned.
C1_Original ==
    ret.kind = "error" => ~ret.ws

\* C1 (amended): when Generate returns an error from the dashboard fetch,
\* the image-directory creation or the template render, it has called
\* Clean and the workspace directory is gone when it returns; when it
\* returns an error from runLaTeX (compiler pass 1 or 2, the missing
\* artifact) it has not called Clean and the workspace is still there.
C1_CleanupOnError ==
    ret.kind = "error" =>
        /\ ret.stage \in {"dashboard", "images", "tex", "latex"}
        /\ ret.stage \in {"dashboard", "images", "tex"} => ret.cleaned /\ ~ret.ws
        /\ ret.stage = "latex" => ~ret.cleaned /\ ret.ws

\* A template render failed after the workspace had been filled, and the
\* workspace was removed before Generate returned.
C1_Witness ==
    /\ ret.kind = "error" /\ ret.stage = "tex"
    /\ summary.closed /\ SucceededTasks # {}
    /\ ret.cleaned /\ ~ret.ws

\* C2: panel download failures are never escalated: fetchImages returns an
\* error only before any download is scheduled, the barrier is passed only
\* when every scheduled download has finished, fetchImages then returns
\* nil whatever failed, and Generate goes on to the template render, so an
\* error of Generate after downloads never comes from the images stage.
C2_FailuresNotEscalated ==
    /\ summary.result = "error" => tasks = <<>>
    /\ (ret.kind = "error" /\ ret.stage = "images") => tasks = <<>>
    /\ summary.closed =>
          /\ \A i \in 1..Len(tasks) : TaskFinished(tasks[i])
          /\ summary.result = "nil"
          /\ pc \in {"tex", "latex1", "latex2", "check", "returned"}
          /\ pc = "returned" => (ret.kind = "pdf" \/ ret.stage \in {"tex", "latex"})

\* Two downloads failed, a third succeeded, and Generate returned the
\* document.
C2_Witness ==
    /\ ret.kind = "pdf"
    /\ Cardinality(FailedTasks) = 2
    /\ SucceededTasks # {}

C7_NoFailureLost ==
    summary.closed =>
        /\ Len(summary.downloadErrors) = Cardinality(FailedTasks)
        /\ \A i \in FailedTasks :
              Cardinality({k \in 1..Len(summary.downloadErrors) :
                               summary.downloadErrors[k].panel = tasks[i].panel}) = 1
        /\ \A k \in 1..Len(summary.downloadErrors) :
              \E i \in FailedTasks :
                  /\ summary.downloadErrors[k].panel = tasks[i].panel
                  /\ summary.downloadErrors[k].cause = tasks[i].err

\* The summary holds the failures of two downloads, sent in the reverse of
\* the order in which they were scheduled.
C7_Witness ==
    /\ summary.closed
    /\ Len(summary.downloadErrors) = 2
    /\ \E i, j \in FailedTasks :
          /\ i < j
          /\ summary.downloadErrors[1].panel = tasks[j].panel
          /\ summary.downloadErrors[2].panel = tasks[i].panel

\* C8: once the loop of fetchImages is over, every panel of the selected
\* list has been looked at once, in order; every panel that is not text
\* has exactly one download, every text panel has none, and no render
\* request is ever issued for a text panel.
C8_ScheduledOnce ==
    LET sel == SelectedPanels(dash, rep.useRowLayout)
    IN  /\ Len(tasks) <= Len(sel)
        /\ \A i \in 1..Len(tasks) :
              /\ tasks[i].panel = sel[i].Id
              /\ (tasks[i].st = "skipped") <=> (sel[i].Type = "text")
        /\ summary.closed => Len(tasks) = Len(sel)
        /\ \A i \in 1..Len(sel) : sel[i].Type = "text" => sel[i].Id \notin requested
        /\ requested \subseteq {tasks[i].panel : i \in 1..Len(tasks)}

\* The loop is over on a list that holds a text panel and another panel,
\* and the other panel has been requested.
C8_Witness ==
    /\ summary.closed
    /\ \E i, j \in 1..Len(tasks) :
          /\ tasks[i].st = "skipped"
          /\ tasks[j].st = "done"
          /\ tasks[j].panel \in requested

\* The goroutine of task t has created its image file and has not given
\* it up: it is copying the body into it, or has finished the copy.
Writes(t) == t.st = "copy" \/ (t.st = "done" /\ t.err = NoErr)
Downloads(t) == t.st # "skipped"
WritersOf(file) ==
    {i \in 1..Len(tasks) : Writes(tasks[i]) /\ imgFilePath(tasks[i].panel) = file}

Passes == 1..Len(gen.runs)
Started(stage) == \E k \in 1..Len(gen.stages) : gen.stages[k] = stage

\* C25: pdflatex is run twice, one pass after the other, in every run that
\* gets to the check of the PDF; the second pass starts only after the
\* first has exited with zero; a non-zero exit of either pass ends
\* Generate with an error that names the path of the log; there is never
\* a third pass.
C25_TwoPasses ==
    /\ Len(gen.runs) <= 2
    /\ \A k \in Passes : gen.runs[k].pass = k
    /\ Len(gen.runs) = 2 => gen.runs[1].exitZero
    /\ (Started("check") \/ ret.kind = "pdf") =>
          (Len(gen.runs) = 2 /\ \A k \in Passes : gen.runs[k].exitZero)
    /\ \A k \in Passes :
          ~gen.runs[k].exitZero =>
              /\ k = Len(gen.runs)
              /\ pc = "returned" /\ ret.kind = "error" /\ ret.stage = "latex"
              /\ gen.err.kind = "pass" /\ gen.err.pass = k
              /\ gen.err.refers = "logPath"
              /\ gen.cleans = 0 => fs.log

\* The first pass exited with zero, the second did not, and Generate
\* returned the error that names the log.
C25_Witness ==
    /\ Len(gen.runs) = 2
    /\ gen.runs[1].exitZero /\ ~gen.runs[2].exitZero
    /\ ret.kind = "error" /\ gen.err = LatexErr("pass", 2) /\ fs.log

BothPassesZero == Len(gen.runs) = 2 /\ \A k \in Passes : gen.runs[k].exitZero

\* C26: Generate returns the handle of the PDF only when both passes have
\* exited with zero and the PDF is in the workspace when it returns; when
\* both passes exited with zero and the PDF is not there it returns an
\* error and no handle.
C26_HandleNeedsArtifact ==
    /\ ret.kind = "pdf" => (BothPassesZero /\ ret.ws /\ ret.pdf)
    /\ (pc = "returned" /\ BothPassesZero /\ ~ret.pdf) =>
          (ret.kind = "error" /\ ret.stage = "latex" /\ gen.err.kind = "nopdf")

\* Both passes exited with zero, neither wrote report.pdf, and Generate
\* returned the error of the missing PDF.
C26_Witness ==
    /\ pc = "returned" /\ BothPassesZero
    /\ ~ret.pdf /\ ret.ws
    /\ ret.kind = "error" /\ gen.err.kind = "nopdf"

StageOrder == <<"dashboard", "images", "tex", "latex1", "latex2", "check">>
Running(t) == t.st \notin {"skipped", "done"}

\* C27: the stages of Generate start in the order dashboard fetch, image
\* acquisition, template render, pass 1, pass 2, check of the PDF, each
\* once; downloads exist only once image acquisition has started, and no
\* download is running when the template render or a later stage has
\* started.
C27_StageOrder ==
    /\ Len(gen.stages) <= Len(StageOrder)
    /\ gen.stages = SubSeq(StageOrder, 1, Len(gen.stages))
    /\ tasks # <<>> => Started("images")
    /\ (pc \in {"tex", "latex1", "latex2", "check"} \/ Started("tex")) =>
          \A i \in 1..Len(tasks) : ~Running(tasks[i])

\* Every stage has started, after three downloads.
C27_Witness ==
    /\ gen.stages = StageOrder
    /\ Len(tasks) = 3
    /\ \A i \in 1..Len(tasks) : tasks[i].st = "done"

\* C28: a fatal failure of a stage (an error of the dashboard fetch, of
\* the template's creation, parse or execution, a non-zero exit of
\* pdflatex, and the other errors Generate returns) ends Generate: it has
\* returned an error and no handle, the failed stage is the last that
\* started and started once, and after a dashboard error no image was
\* requested, no download scheduled, no template rendered and no compiler
\* run.
C28_FatalStops ==
    gen.faults # <<>> =>
        /\ pc = "returned" /\ ret.kind = "error"
        /\ gen.faults = <<gen.stages[Len(gen.stages)]>>
        /\ \A j, k \in 1..Len(gen.stages) : gen.stages[j] = gen.stages[k] => j = k
        /\ gen.faults = <<"dashboard">> =>
              /\ gen.stages = <<"dashboard">>
              /\ requested = {} /\ tasks = <<>> /\ gen.runs = <<>>
              /\ ~fs.tex /\ ~fs.pdf

\* The template of a report failed to parse after an image had been
\* downloaded, and Generate returned its error.
C28_Witness ==
    /\ gen.faults = <<"tex">>
    /\ gen.stages = <<"dashboard", "images", "tex">>
    /\ requested # {} /\ SucceededTasks # {}
    /\ pc = "returned" /\ ret.kind = "error" /\ gen.runs = <<>>

C30_SuccessKeepsWorkspace ==
    [][/\ (ret.kind # "pdf" /\ ret'.kind = "pdf") => (fs'.ws /\ fs'.pdf)
       /\ (ret.kind = "pdf" /\ (fs'.ws # fs.ws \/ fs'.pdf # fs.pdf)) =>
             gen'.cleans > gen.cleans]_vars

\* Generate has returned the PDF, no Clean has been called, and the
\* workspace holds the PDF and an image.
C30_Witness ==
    /\ ret.kind = "pdf" /\ gen.cleans = 0
    /\ fs.ws /\ fs.pdf /\ fs.images # {}

DashboardFetchOk == Started("dashboard") /\ gen.faults # <<"dashboard">>

\* C31: Title() is the empty string in every state before the dashboard
\* fetch has succeeded, also after a fetch that failed, and the title of
\* the fetched dashboard in every state after a fetch that succeeded,
\* whatever the later stages do.
C31_Title ==
    Title(rep) = IF DashboardFetchOk THEN dash.Title ELSE ""

\* The dashboard titled "rows" was fetched, pdflatex failed later, and
\* Title() still gives "rows".
C31_Witness ==
    /\ DashboardFetchOk
    /\ ret.kind = "error" /\ ret.stage = "latex"
    /\ dash.Title = "rows" /\ Title(rep) = "rows"

\* The ids of the well-formed entries that are not rows and stand inside
\* a row of the payload, at any depth.
RECURSIVE NestedPanelIds(_, _)
NestedPanelIds(raws, inRow) ==
    IF raws = <<>> THEN {}
    ELSE LET e == Head(raws)
         IN  (IF ~e.ok THEN {}
              ELSE IF e.Type = "row" THEN NestedPanelIds(e.Panels, TRUE)
              ELSE IF inRow THEN {e.Id} ELSE {})
             \cup NestedPanelIds(Tail(raws), inRow)

\* The ids of the well-formed entries that stand directly inside a
\* well-formed top-level row of the payload.
DirectlyNestedIds(raws) ==
    UNION {{raws[i].Panels[k].Id :
               k \in {n \in 1..Len(raws[i].Panels) : raws[i].Panels[n].ok}} :
           i \in {n \in 1..Len(raws) : raws[n].ok /\ raws[n].Type = "row"}}

IdsOf(panels) == {panels[i].Id : i \in 1..Len(panels)}
HandedOver == IdsOf(SelectedPanels(dash, rep.useRowLayout))
DownloadTasks == {i \in 1..Len(tasks) : Downloads(tasks[i])}
TaskPanels == {tasks[i].panel : i \in 1..Len(tasks)}

\* The dashboard of the example: one row holding two graphs, and one stat
\* panel outside the row.
IsExampleDashboard ==
    LET src == PanelSource(dash)
        TopPanels == {i \in 1..Len(src) : src[i].ok /\ src[i].Type # "row"}
        TopRows3 == {i \in 1..Len(src) : src[i].ok /\ src[i].Type = "row"}
    IN  /\ Len(src) = 2
        /\ Cardinality(TopPanels) = 1 /\ Cardinality(TopRows3) = 1
        /\ \A i \in TopPanels : src[i].Type = "singlestat"
        /\ \A i \in TopRows3 :
              /\ Len(src[i].Panels) = 2
              /\ \A k \in 1..2 : src[i].Panels[k].ok /\ src[i].Panels[k].Type = "graph"

\* In a mode without row layout the example has three downloads.
ExampleHasThree ==
    (IsExampleDashboard /\ ~rep.useRowLayout /\ summary.closed) =>
        (Len(tasks) = 3 /\ Cardinality(DownloadTasks) = 3)

\* C32 (as stated): the panels handed to image acquisition are, in row
\* layout, every panel nested in any row, and in every other mode the
\* flat grid list; the example dashboard has three downloads in
\* sequential mode.
C32_Original ==
    DashboardFetchOk =>
        /\ HandedOver = IF rep.useRowLayout
                        THEN NestedPanelIds(PanelSource(dash), FALSE)
                        ELSE IdsOf(GetGridPanels(dash))
        /\ summary.closed => TaskPanels = HandedOver
        /\ ExampleHasThree

\* C32 (amended): the panels handed to image acquisition are, in row
\* layout, every well-formed entry nested directly in a top-level row, and
\* in every other mode the flat grid list; the example dashboard has three
\* downloads in sequential mode.
C32_PanelSetByLayout ==
    DashboardFetchOk =>
        /\ HandedOver = IF rep.useRowLayout
                        THEN DirectlyNestedIds(PanelSource(dash))
                        ELSE IdsOf(GetGridPanels(dash))
        /\ summary.closed => TaskPanels = HandedOver
        /\ ExampleHasThree

\* The example dashboard was fetched without row layout and its three
\* panels have been downloaded.
C32_Witness ==
    /\ IsExampleDashboard /\ ~rep.useRowLayout /\ summary.closed
    /\ Cardinality(SucceededTasks) = 3
    /\ HandedOver = {2, 3, 4}

TexWritten == Started("tex") /\ gen.faults # <<"tex">>
DownloadScheduledFor(id) ==
    \E i \in 1..Len(tasks) : tasks[i].panel = id /\ Downloads(tasks[i])
AllDownloadsSucceeded == \A i \in DownloadTasks : Succeeded(tasks[i])

\* C35: with a built-in template, every panel whose image the written
\* report.tex includes is a panel for which fetchImages scheduled a
\* download, and when all downloads succeeded every included image file is
\* in the workspace as long as the workspace is there.
C35_EmbeddedWereScheduled ==
    (TexWritten /\ rep.texTemplate # "custom") =>
        /\ \A id \in gen.embeds : DownloadScheduledFor(id)
        /\ (AllDownloadsSucceeded /\ fs.imgDir) =>
              \A id \in gen.embeds : imgFilePath(id) \in fs.images

\* C37: the failure channel is closed only after every download task has
\* finished: when it is closed no task is left that could send, nothing
\* is sent on it afterwards, and the summary is read from it only once it
\* is closed.
C37_ClosedAfterTasks ==
    /\ summary.closed =>
          /\ \A i \in 1..Len(tasks) : tasks[i].st \in {"skipped", "done"}
          /\ errorChannel = <<>>
    /\ ~summary.closed => summary.downloadErrors = <<>>

\* The channel was closed after three failed downloads had sent their
\* errors, and the summary holds the three.
C37_Witness ==
    /\ summary.closed
    /\ Cardinality(FailedTasks) = 3
    /\ Len(summary.downloadErrors) = 3

(***************************************************************************)
(* Properties of one panel image request (SpecRender).                     *)
(***************************************************************************)
Ended == rq.state \in {"ok", "err"}
Is500(r) == r.err = "none" /\ r.status = 500
All500 == Len(rq.hist) > 0 /\ \A i \in 1..Len(rq.hist) : Is500(rq.hist[i])
AttemptsAllowed == maxGetPanelRetries + 1

\* C3 (as stated): when every attempt returns 500 the client makes exactly
\* maxGetPanelRetries = 3 attempts, then fails with an error naming the
\* panel and the last status.
C3_Original ==
    All500 =>
        /\ Len(rq.hist) <= maxGetPanelRetries
        /\ Ended <=> Len(rq.hist) = maxGetPanelRetries
        /\ Ended => rq.err = RenderErr("exhausted", rq.panel, 500)

\* C3 (amended): when every attempt returns 500 the client makes exactly
\* maxGetPanelRetries + 1 = 4 attempts (the first and three retries), never
\* more and never fewer, then fails with an error naming the panel and the
\* last status.
C3_RetryBound ==
    All500 =>
        /\ Len(rq.hist) <= AttemptsAllowed
        /\ Ended <=> Len(rq.hist) = AttemptsAllowed
        /\ Ended => rq.err = RenderErr("exhausted", rq.panel, 500)

\* A request has ended after four replies of 500.
C3_Witness ==
    All500 /\ Ended /\ Len(rq.hist) = AttemptsAllowed /\ rq.err.status = 500 /\ rq.err.id = rq.panel

RetriedByClaim(r) ==
    \/ r.err \in {"timeout", "transport"}
    \/ r.err = "none" /\ r.status >= 500
Is200(r) == r.err = "none" /\ r.status = 200

\* C4: GetPanelPng succeeds if and only if a 200 arrives within the
\* attempts allowed and every reply before it was a 5xx status or a
\* timeout/transport error; after a 200 no further request is issued.
C4_SuccessIff ==
    /\ Ended =>
          (rq.state = "ok" <=>
              /\ Len(rq.hist) \in 1..AttemptsAllowed
              /\ Is200(rq.hist[Len(rq.hist)])
              /\ \A i \in 1..(Len(rq.hist) - 1) : RetriedByClaim(rq.hist[i]))
    /\ \A i \in 1..(Len(rq.hist) - 1) : ~Is200(rq.hist[i])

Is4xx(r) == r.err = "none" /\ r.status \in 400..499
IsAuth(r) == r.err = "none" /\ r.status \in {401, 403}

\* C5: a 4xx reply (404, 401/403 or any other) is the last request of the
\* fetch: it ends at once with an error, and the error is the
\* authorization error exactly when the reply was 401 or 403.
C5_NoRetryOn4xx ==
    /\ \A i \in 1..Len(rq.hist) :
          Is4xx(rq.hist[i]) => (i = Len(rq.hist) /\ rq.state = "err")
    /\ (Ended /\ Len(rq.hist) > 0) =>
          (rq.err.kind = "auth" <=> IsAuth(rq.hist[Len(rq.hist)]))

\* A request was retried after a server error and then ended on a 403 with
\* the authorization error.
C5_Witness ==
    /\ rq.state = "err" /\ rq.err.kind = "auth"
    /\ Len(rq.hist) = 2
    /\ rq.hist[2] = Response("none", 403)

\* The render URL of the request was built.
UrlBuilt == rq.state # "idle" /\ rq.err.kind # "emptyuid"

\* What the same client asks for a panel of a type without a size of its
\* own.
DefaultValues == RenderValues(RenderPanel(rq.p.Id, "graph", rq.p.W, rq.p.H), rq.grid)

\* C21: the width and height of a panel image request follow the policy:
\* with fit-to-grid they are the panel's grid width and height times one
\* multiplier; without it a stat panel is asked smaller than the default,
\* a text panel no narrower and flatter than the default.
C21_SizePolicy ==
    UrlBuilt =>
        IF rq.grid
        THEN /\ rq.vals.width % rq.p.W = 0
             /\ rq.vals.height % rq.p.H = 0
             /\ rq.vals.width \div rq.p.W = rq.vals.height \div rq.p.H
        ELSE /\ rq.p.Type = "singlestat" =>
                    /\ rq.vals.width < DefaultValues.width
                    /\ rq.vals.height < DefaultValues.height
             /\ rq.p.Type = "text" =>
                    /\ rq.vals.width >= DefaultValues.width
                    /\ rq.vals.height < DefaultValues.height

IsRedirect(r) == r.err = "redirect"

\* C22: a redirect is never followed: once the server has answered with a
\* redirect no further request is sent, and the fetch ends with an error,
\* never with image data.
C22_RedirectNotFollowed ==
    \A i \in 1..Len(rq.hist) :
        IsRedirect(rq.hist[i]) => (i = Len(rq.hist) /\ rq.state = "err")

(***************************************************************************)
(* Properties of two reports side by side (SpecIso).                       *)
(***************************************************************************)
BothBuilt == \A r \in IsoReports : iso.reps[r].built
WrittenBy(r) == {w[2] : w \in {x \in iso.wrote : x[1] = r}}

\* C23: two reports built by New, also for the same dashboard and with
\* their work interleaved, have different workspace directories and never
\* write the same path; when both have been cleaned nothing of either
\* workspace is left on the disk.
C23_WorkspaceIsolation ==
    /\ BothBuilt => iso.reps[1].tmpDir # iso.reps[2].tmpDir
    /\ WrittenBy(1) \cap WrittenBy(2) = {}
    /\ (BothBuilt /\ \A r \in IsoReports : iso.reps[r].cleaned) =>
          \A r \in IsoReports, path \in iso.disk : ~Below(path, iso.reps[r].tmpDir)

\* Two reports for the same dashboard have both written their report.tex
\* and their image file, turn by turn, and both have been cleaned.
C23_Witness ==
    /\ BothBuilt
    /\ iso.reps[1].dashName = iso.reps[2].dashName
    /\ \A r \in IsoReports :
          /\ iso.reps[r].cleaned
          /\ iso.reps[r].tmpDir \o <<"report.tex">> \in WrittenBy(r)
          /\ iso.reps[r].tmpDir \o <<"images", "image1.png">> \in WrittenBy(r)
    /\ iso.disk = {}

\* C38: for every panel id, the path PanelImagePath has put into
\* report.tex, resolved against the workspace directory in which pdflatex
\* runs, is the path image acquisition writes for that panel id,
\* <workspace>/images/image<id>.png.
C38_ImagePathAgrees ==
    \A r \in IsoReports :
        \A e \in iso.reps[r].embeds :
            /\ ResolveIn(iso.reps[r].tmpDir, e[2]) =
                   iso.reps[r].tmpDir \o <<"images", ImageFileName(e[1])>>
            /\ \A w \in iso.reps[r].images :
                  w[1] = e[1] => ResolveIn(iso.reps[r].tmpDir, e[2]) = w[2]

\* A report has written the image of panel 2 and its report.tex, and the
\* path report.tex holds for panel 2 leads to the image on the disk.
C38_Witness ==
    \E r \in IsoReports :
        /\ <<2, PanelImagePath(2)>> \in iso.reps[r].embeds
        /\ \E w \in iso.reps[r].images : w[1] = 2
        /\ ResolveIn(iso.reps[r].tmpDir, PanelImagePath(2)) \in iso.disk
        /\ ResolveIn(iso.reps[r].tmpDir, PanelImagePath(2)) \in WrittenBy(r)

\* C33: the delay between the attempts of one panel image fetch grows
\* linearly: nothing is waited before the first attempt, and before the
\* k-th retry the client waits k times the base delay.  (sleeps holds,
\* for each attempt made, the delay slept before it in base delays.)
C33_LinearDelay ==
    /\ Len(rq.sleeps) = Len(rq.hist)
    /\ \A n \in 1..Len(rq.sleeps) : rq.sleeps[n] = n - 1

\* A fetch has made its first attempt and three retries, and has waited
\* 0, 1, 2 and 3 base delays before them.
C33_Witness ==
    /\ Ended
    /\ rq.sleeps = <<0, 1, 2, 3>>
    /\ Len(rq.hist) = AttemptsAllowed

(***************************************************************************)
(* Properties of fetchImages as a task group (SpecGroup).                  *)
(***************************************************************************)
AllDownloadsReturned == grp.st = "waiting" /\ grp.running = 0

\* C34: image acquisition always ends: when every download has returned
\* and fetchImages has not yet passed its barrier, a goroutine can finish
\* its send or the barrier can be passed, for any number of panels and of
\* failed downloads, more failures than the channel has slots included.
C34_AlwaysTerminates ==
    AllDownloadsReturned => ENABLED (GroupSend \/ GroupWait)

\* C36: a redirect answered to a panel image request is taken for an
\* authentication failure and is never retried: the request that met the
\* redirect is the last of the fetch, and the fetch ends with the
\* authorization error.
C36_RedirectIsAuthFailure ==
    \A i \in 1..Len(rq.hist) :
        IsRedirect(rq.hist[i]) =>
            /\ i = Len(rq.hist)
            /\ Ended /\ rq.state = "err" /\ rq.err.kind = "auth"
            /\ rq.retries = i - 1

(***************************************************************************)
(* Properties of SanitizeLaTexInput (SpecSanitize).                        *)
(***************************************************************************)
StartsAt(s, i, sub) ==
    i + Len(sub) - 1 <= Len(s) /\ SubSeq(s, i, i + Len(sub) - 1) = sub
ContainsSeq(s, sub) == \E i \in 1..Len(s) : StartsAt(s, i, sub)
CountSeq(s, sub) == Cardinality({i \in 1..Len(s) : StartsAt(s, i, sub)})

\* C39: SanitizeLaTexInput turns each backslash of its input into
\* \textbackslash{}, and what it returns never holds the placeholder of
\* the backslash, nor a piece of it with its underscores escaped.
C39_BackslashEscaped ==
    san.called =>
        /\ CountSeq(san.out, TextBackslash) = CountSeq(san.input, <<"\\">>)
        /\ ~ContainsSeq(san.out, Placeholder)
        /\ ~ContainsSeq(san.out, <<"T", "E", "M", "P", "\\", "_">>)

(***************************************************************************)
(* Properties of the normalizer (SpecNorm).                                *)
(***************************************************************************)
\* Well-formed non-row entries, counted through row containers at every
\* depth.
RECURSIVE CountRecursive(_)
CountRecursive(raws) ==
    IF raws = <<>> THEN 0
    ELSE LET e == Head(raws)
         IN  (IF ~e.ok THEN 0
              ELSE IF e.Type = "row" THEN CountRecursive(e.Panels)
              ELSE 1) + CountRecursive(Tail(raws))

\* Well-formed non-row entries at the top level and directly inside a
\* top-level row container.
CountLeaves(raws) ==
    Cardinality({i \in 1..Len(raws) : raws[i].ok /\ raws[i].Type # "row"})

RECURSIVE CountOneLevel(_)
CountOneLevel(raws) ==
    IF raws = <<>> THEN 0
    ELSE LET e == Head(raws)
         IN  (IF ~e.ok THEN 0
              ELSE IF e.Type = "row" THEN CountLeaves(e.Panels)
              ELSE 1) + CountOneLevel(Tail(raws))

\* C9 (as stated): the list GetGridPanels returns has as many elements as
\* the payload has well-formed non-row entries, counted through row
\* containers at every nesting depth.
C9_Original ==
    gridRet.called => Len(gridRet.val) = CountRecursive(PanelSource(dash))

\* C9 (amended): the list GetGridPanels returns has as many elements as the
\* payload has well-formed non-row entries at the top level and directly
\* inside a top-level row container; entries nested deeper (inside a row
\* that is itself inside a row) are not decoded and not counted.
C9_FlatLength ==
    gridRet.called => Len(gridRet.val) = CountOneLevel(PanelSource(dash))

\* The flat list holds two panels: one from the top level of the payload
\* and one nested in a row of it.
C9_Witness ==
    /\ gridRet.called
    /\ Len(gridRet.val) = 2
    /\ \E i \in 1..Len(dash.Panels) :
          /\ dash.Panels[i].ok /\ dash.Panels[i].Type = "row"
          /\ \E k \in 1..2 : \E j \in 1..Len(dash.Panels[i].Panels) :
                 dash.Panels[i].Panels[j].Id = gridRet.val[k].Id
    /\ \E i \in 1..Len(dash.Panels) :
          \E k \in 1..2 : dash.Panels[i].Id = gridRet.val[k].Id

\* Where a panel stands in the payload: its position in the order in which
\* the entries are read.
SourcePosition(id) ==
    LET flat == CollectPanels(PanelSource(dash)).allPanels
    IN  CHOOSE k \in 1..Len(flat) : flat[k].Id = id

\* C10: the list GetGridPanels returns is ordered by y, then by x, and
\* panels at the same (y, x) keep the order they had in the payload.
C10_OrderedStable ==
    gridRet.called =>
        \A i, j \in 1..Len(gridRet.val) :
            i < j =>
                LET a == gridRet.val[i]
                    b == gridRet.val[j]
                IN  /\ a.Y < b.Y \/ (a.Y = b.Y /\ a.X <= b.X)
                    /\ (a.Y = b.Y /\ a.X = b.X) =>
                           SourcePosition(a.Id) < SourcePosition(b.Id)

\* Three panels came back: two at the same position in their payload
\* order, after a panel that stood last in the payload.
C10_Witness ==
    /\ gridRet.called
    /\ Len(gridRet.val) = 3
    /\ gridRet.val[2].X = gridRet.val[3].X /\ gridRet.val[2].Y = gridRet.val[3].Y
    /\ SourcePosition(gridRet.val[1].Id) = 3

\* A list in grid order: y ascending, and x ascending where y is equal.
InGridOrder(s) ==
    \A i, j \in 1..Len(s) :
        i < j => (s[i].Y < s[j].Y \/ (s[i].Y = s[j].Y /\ s[i].X <= s[j].X))

\* C11: in every row GetRows returns, the nested panel list ContentPanels
\* is ordered by grid position (y ascending, then x ascending), whatever
\* the order of the nested entries in the payload.
C11_NestedOrdered ==
    rowsRet.called =>
        \A k \in 1..Len(rowsRet.val) : InGridOrder(rowsRet.val[k].ContentPanels)

\* The well-formed row containers among the entries of a list.
TopRows(raws) == {i \in 1..Len(raws) : raws[i].ok /\ raws[i].Type = "row"}

\* Well-formed row containers, counted through row containers at every
\* depth.
RECURSIVE CountRowsRecursive(_)
CountRowsRecursive(raws) ==
    IF raws = <<>> THEN 0
    ELSE LET e == Head(raws)
         IN  (IF e.ok /\ e.Type = "row" THEN 1 + CountRowsRecursive(e.Panels)
              ELSE 0) + CountRowsRecursive(Tail(raws))

\* C12 (as stated): GetRows returns as many rows as the payload has
\* well-formed row-container entries, wherever they stand, in (y, x) order.
C12_Original ==
    rowsRet.called =>
        /\ Len(rowsRet.val) = CountRowsRecursive(PanelSource(dash))
        /\ InGridOrder(rowsRet.val)

\* C12 (amended): GetRows returns exactly one row for each well-formed
\* row-container entry at the top level of the payload, and no other row
\* (a row container nested in a row container yields none), ordered by
\* the rows' own (y, x); a row container without valid nested panels
\* yields a row with an empty nested list.
C12_RowCount ==
    rowsRet.called =>
        LET src == PanelSource(dash)
        IN  /\ Len(rowsRet.val) = Cardinality(TopRows(src))
            /\ InGridOrder(rowsRet.val)
            /\ \A i \in TopRows(src) :
                  Cardinality({k \in 1..Len(rowsRet.val) :
                                   rowsRet.val[k].Id = src[i].Id}) = 1
            /\ \A i \in TopRows(src) :
                  (\A j \in 1..Len(src[i].Panels) : ~src[i].Panels[j].ok) =>
                      \E k \in 1..Len(rowsRet.val) :
                          /\ rowsRet.val[k].Id = src[i].Id
                          /\ rowsRet.val[k].ContentPanels = <<>>

\* Two rows came back in the reverse of their payload order, and the one
\* whose only nested entry is malformed has an empty nested list.
C12_Witness ==
    /\ rowsRet.called
    /\ Len(rowsRet.val) = 2
    /\ LET src == PanelSource(dash)
       IN  /\ Len(src) = 2
           /\ rowsRet.val[1].Id = src[2].Id
           /\ rowsRet.val[2].Id = src[1].Id
           /\ Len(src[1].Panels) = 1
           /\ ~src[1].Panels[1].ok
           /\ rowsRet.val[2].ContentPanels = <<>>

\* C13: the visibility flag of a row the normalizer built is false exactly
\* when the row-container entry it was built from was marked collapsed.
C13_VisibleIffNotCollapsed ==
    rowsRet.called =>
        LET src == PanelSource(dash)
        IN  \A k \in 1..Len(rowsRet.val) :
                \E i \in TopRows(src) :
                    /\ src[i].Id = rowsRet.val[k].Id
                    /\ (IsVisible(rowsRet.val[k]) = FALSE) <=> src[i].Collapsed

\* Two rows came back, one built from a collapsed container and hidden,
\* the other built from an open container and visible.
C13_Witness ==
    /\ rowsRet.called
    /\ Len(rowsRet.val) = 2
    /\ \E k, l \in 1..2 :
          /\ ~IsVisible(rowsRet.val[k])
          /\ IsVisible(rowsRet.val[l])
          /\ \E i \in TopRows(PanelSource(dash)) :
                /\ PanelSource(dash)[i].Id = rowsRet.val[k].Id
                /\ PanelSource(dash)[i].Collapsed

\* How often a panel id occurs in a list of panels.
Occurrences(s, id) == Cardinality({k \in 1..Len(s) : s[k].Id = id})

\* The well-formed entries of a list that are not row containers.
Leaves(raws) == {i \in 1..Len(raws) : raws[i].ok /\ raws[i].Type # "row"}

\* The ids of the well-formed non-row entries, looked for through row
\* containers at every depth.
RECURSIVE LeafIdsRecursive(_)
LeafIdsRecursive(raws) ==
    IF raws = <<>> THEN {}
    ELSE LET e == Head(raws)
         IN  (IF ~e.ok THEN {}
              ELSE IF e.Type = "row" THEN LeafIdsRecursive(e.Panels)
              ELSE {e.Id}) \cup LeafIdsRecursive(Tail(raws))

\* C14 (as stated): every well-formed panel that is not a row container,
\* wherever it stands in the payload, is exactly once in the flat list.
C14_Original ==
    (gridRet.called /\ rowsRet.called) =>
        \A id \in LeafIdsRecursive(PanelSource(dash)) :
            Occurrences(gridRet.val, id) = 1

\* C14 (amended): every well-formed non-row panel that stands at the top
\* level of the payload or directly inside a top-level row container is
\* exactly once in the flat list; one that stands inside a row container
\* is also exactly once in that row's nested list and in no other row's
\* list, one at the top level is in no row's list; the flat list holds no
\* other panel (entries nested deeper are in neither view).
C14_DualMembership ==
    (gridRet.called /\ rowsRet.called) =>
        LET src == PanelSource(dash)
            InRow(k, id) == Occurrences(rowsRet.val[k].ContentPanels, id)
        IN  /\ \A i \in Leaves(src) :
                  /\ Occurrences(gridRet.val, src[i].Id) = 1
                  /\ \A k \in 1..Len(rowsRet.val) : InRow(k, src[i].Id) = 0
            /\ \A i \in TopRows(src) : \A j \in Leaves(src[i].Panels) :
                  /\ Occurrences(gridRet.val, src[i].Panels[j].Id) = 1
                  /\ \A k \in 1..Len(rowsRet.val) :
                        InRow(k, src[i].Panels[j].Id) =
                            IF rowsRet.val[k].Id = src[i].Id THEN 1 ELSE 0
            /\ \A n \in 1..Len(gridRet.val) :
                  \/ \E i \in Leaves(src) : src[i].Id = gridRet.val[n].Id
                  \/ \E i \in TopRows(src) : \E j \in Leaves(src[i].Panels) :
                         src[i].Panels[j].Id = gridRet.val[n].Id

\* Both views were taken of a payload with a panel inside a row and a
\* panel outside it: both panels are in the flat list, the first one also
\* in the row.
C14_Witness ==
    /\ gridRet.called /\ rowsRet.called
    /\ Len(gridRet.val) = 2
    /\ Len(rowsRet.val) = 1
    /\ Len(rowsRet.val[1].ContentPanels) = 1
    /\ Occurrences(gridRet.val, rowsRet.val[1].ContentPanels[1].Id) = 1
    /\ \E i \in Leaves(PanelSource(dash)) :
          Occurrences(gridRet.val, PanelSource(dash)[i].Id) = 1

Fresh == [dash EXCEPT !.processedPanels = <<>>, !.processedRows = <<>>]

\* C16: normalization is memoized per instance: however often
\* processPanelsAndRows, GetGridPanels and GetRows are called on it, the
\* raw entries are parsed in one pass only and never again, and each
\* accessor returns what the first normalization produced; this for every
\* dashboard, one whose normalization yields no panels and no rows
\* included.
C16_Memoized ==
    npc = "decoded" =>
        /\ parses <= ParseCalls(PanelSource(dash))
        /\ gridRet.called => gridRet.val = GridPanelsOf(processPanelsAndRows(Fresh))
        /\ rowsRet.called => rowsRet.val = RowsOf(processPanelsAndRows(Fresh))

\* A list of raw entries without its malformed ones, and without the
\* malformed ones nested in its row containers.
StripMalformed(raws) ==
    LET Keep(l) == SelectSeq(l, LAMBDA e : e.ok)
        top == Keep(raws)
    IN  [i \in 1..Len(top) |->
            IF top[i].Type = "row"
            THEN [top[i] EXCEPT !.Panels = Keep(@)]
            ELSE top[i]]

\* The instance decoded from the payload with its malformed entries removed.
FreshStripped ==
    [Fresh EXCEPT !.Panels = StripMalformed(@), !.Rows = StripMalformed(@)]

\* C17: a malformed raw entry, at the top level or nested in a row, is
\* skipped: the flat list and the rows returned for a payload are those
\* of the same payload with its malformed entries removed.
C17_MalformedSkipped ==
    /\ gridRet.called => gridRet.val = GetGridPanels(FreshStripped)
    /\ rowsRet.called => rowsRet.val = GetRows(FreshStripped)

\* Both views were taken of a row whose nested entries are a malformed
\* one and a valid one: the valid one is in the flat list and in the row.
C17_Witness ==
    /\ gridRet.called /\ rowsRet.called
    /\ LET src == PanelSource(dash)
       IN  /\ Len(src) = 1
           /\ 1 \in TopRows(src)
           /\ Len(src[1].Panels) = 2
           /\ ~src[1].Panels[1].ok
           /\ src[1].Panels[2].ok
    /\ Len(gridRet.val) = 1
    /\ Len(rowsRet.val) = 1
    /\ rowsRet.val[1].ContentPanels = gridRet.val

(***************************************************************************)
(* Properties of the dashboard fetch (SpecDash, Spec).                     *)
(***************************************************************************)
DashEnded == dq.state \in {"ok", "err"}

\* C18: when a successfully fetched payload has no uid, the dashboard
\* GetDashboard returns carries the name the caller asked for as its
\* identifier, whatever the name and the payload (a payload with a meta
\* slug included).
C18_NameFallback ==
    (dq.state = "ok" /\ dq.hist[1].body.uid = <<>>) => dash.Uid = dq.name

\* Generate has got a dashboard from GetDashboard and gone on.
DashboardFetched ==
    /\ pc \notin {"off", "new"}
    /\ ~(ret.kind = "error" /\ ret.stage = "dashboard")

\* C19: after a successful dashboard fetch the identifier of the dashboard
\* is not empty, and every panel image request of Generate was issued with
\* an identifier that is not empty.
C19_UidNonEmpty ==
    DashboardFetched =>
        /\ dash.Uid # <<>>
        /\ requested # {} => DashUID # <<>>

\* C20 (as stated): one call of GetDashboard issues one request, whatever
\* the reply, and for a status other than 200 it returns an error with the
\* status and a snippet of the body of at most 500 characters.
C20_Original ==
    /\ Len(dq.hist) <= 1
    /\ DashEnded => Len(dq.hist) = 1
    /\ (DashEnded /\ dq.hist[1].err = "none" /\ dq.hist[1].status # 200) =>
          /\ dq.state = "err"
          /\ dq.err.kind = "status"
          /\ dq.err.status = dq.hist[1].status
          /\ Len(dq.err.snippet) <= SnippetMax
          /\ dq.err.snippet = SubSeq(dq.hist[1].text, 1, Len(dq.err.snippet))

\* C20 (amended): one call of GetDashboard issues one request, whatever
\* the reply (transport error, timeout, any status), and for a status
\* other than 200 it returns an error with the status and a snippet of the
\* body: the whole body when it has at most 500 characters, else its first
\* 500 characters followed by "...", which makes 503 characters at most.
C20_NoRetry ==
    /\ Len(dq.hist) <= 1
    /\ DashEnded => Len(dq.hist) = 1
    /\ (DashEnded /\ dq.hist[1].err # "none") => dq.state = "err"
    /\ (DashEnded /\ dq.hist[1].err = "none" /\ dq.hist[1].status # 200) =>
          LET text == dq.hist[1].text
          IN  /\ dq.state = "err"
              /\ dq.err.kind = "status"
              /\ dq.err.status = dq.hist[1].status
              /\ Len(dq.err.snippet) <= SnippetMax + Len(Ellipsis)
              /\ dq.err.snippet =
                     IF Len(text) <= SnippetMax THEN text
                     ELSE SubSeq(text, 1, SnippetMax) \o Ellipsis

\* A reply of status 500 with a body of 502 characters ended the call
\* after one request, with a snippet of 503 characters.
C20_Witness ==
    /\ dq.state = "err"
    /\ Len(dq.hist) = 1
    /\ dq.hist[1].status = 500
    /\ Len(dq.hist[1].text) = SnippetMax + 2
    /\ dq.err.status = 500
    /\ Len(dq.err.snippet) = SnippetMax + 3

====
